---- MODULE Spec2Model ----
(***************************************************************************)
(* GBDebugger: the VRAM viewer, memory viewer, tile renderer dirty cache   *)
(* and sprite parser, as state machines over the objects' fields.          *)
(*                                                                         *)
(* Objects are records whose fields carry the names of the C++ members;    *)
(* a method is an operator from the object (and its arguments) to the      *)
(* object after the call, paired with the return value where there is one. *)
(***************************************************************************)
EXTENDS Integers, Sequences, FiniteSets, TLC

(***************************************************************************)
(* Program constants                                                       *)
(***************************************************************************)
VRAM_BANK_SIZE == 8192
OAM_SIZE == 160
MEMORY_SIZE == 65536
CGB_FLAG_ADDR == 323
VRAM_BASE == 32768
OAM_BASE == 65024
TILE_COUNT == 384
TILES_PER_ROW == 16
MAX_SPRITES == 40
SPRITE_ENTRY_SIZE == 4
InspectorScale == 8
SpritePoolScale == 4
ROM_BANKS == 512
RAM_BANKS == 16

(***************************************************************************)
(* Bounds of the model                                                     *)
(***************************************************************************)
\* external bank pointers handed to SetVRAMBank are 1..MaxExtPtr
MaxExtPtr == 2
\* ClearTextures is called while at most MaxDeleted texture names are deleted
MaxDeleted == 0
\* texture names the OpenGL context hands out before the pool calls stop
MaxGLNames == 1152
\* the legacy tile cache is exercised on tile indices 0..MaxCacheTile
MaxCacheTile == 1

(***************************************************************************)
(* Byte arrays.  An array of len bytes is kept as its fill byte and the    *)
(* finitely many offsets whose byte differs from it, so that two arrays    *)
(* are equal exactly when they agree byte for byte.                        *)
(***************************************************************************)
Array(len, fill, at) ==
    [len |-> len, fill |-> fill,
     at |-> [i \in {j \in DOMAIN at : at[j] /= fill} |-> at[i]]]

NoBytes == [i \in {} |-> 0]

\* array.fill(0)
Zeroed(len) == Array(len, 0, NoBytes)

\* array[i]
ByteAt(a, i) == IF i \in DOMAIN a.at THEN a.at[i] ELSE a.fill

\* std::memcpy(dst, src, n) into an n-byte destination
Memcpy(src, n) ==
    Array(n, src.fill, [j \in {k \in DOMAIN src.at : k < n} |-> src.at[j]])

\* A caller's pointer: null, or the address of len readable bytes.
NullPtr == [null |-> TRUE, len |-> 0, fill |-> 0, at |-> NoBytes]
PtrTo(a) == [null |-> FALSE, len |-> a.len, fill |-> a.fill, at |-> a.at]

\* buffer + off
PtrAdd(p, off) ==
    [null |-> FALSE, len |-> p.len - off, fill |-> p.fill,
     at |-> [j \in {k - off : k \in {i \in DOMAIN p.at : i >= off}}
                |-> p.at[j + off]]]

(***************************************************************************)
(* State                                                                   *)
(***************************************************************************)
VARIABLES
    is_open_,       \* GBDebugger::is_open_
    backend_,       \* GBDebugger::backend_, as far as the facade drives it
    bankData_,      \* GBDebugger::bankData_
    memory_panel_,  \* GBDebugger::memory_panel_
    vram_panel_,    \* GBDebugger::vram_panel_
    lastCall,       \* the last operation, its arguments and what it returned
    callerPtrs,     \* external bank pointers the caller has granted / revoked
    parseIn,        \* SpriteParser::ParseOAM arguments
    parseOut,       \* SpriteParser::ParseOAM result
    gl,             \* the OpenGL context: texture names in use
    texturePool,    \* a TexturePool used on its own
    paletteManager, \* a PaletteManager used on its own
    callIn,         \* arguments of a const member function
    callOut         \* what the const member function returned

\* the objects and calls outside the debugger facade
standalone == <<texturePool, paletteManager, callIn, callOut>>

vars == <<is_open_, backend_, bankData_, memory_panel_, vram_panel_, lastCall, callerPtrs,
          parseIn, parseOut, gl, texturePool, paletteManager, callIn, callOut>>

(***************************************************************************)
(* PaletteManager                                                          *)
(***************************************************************************)
TileColor(r, g, b, a) == [r |-> r, g |-> g, b |-> b, a |-> a]

\* dmgPalette_ after InitializeDMGPalette()
InitializeDMGPalette ==
    [colors |-> (0 :> TileColor(255, 255, 255, 255)) @@ (1 :> TileColor(192, 192, 192, 255))
                @@ (2 :> TileColor(96, 96, 96, 255)) @@ (3 :> TileColor(0, 0, 0, 255))]

PaletteManager_new ==
    [mode_ |-> "DMG",
     selectedBGPalette_ |-> 0,
     selectedSpritePalette_ |-> 0,
     dmgPalette_ |-> InitializeDMGPalette,
     bgPalettes_ |-> [i \in 0..7 |-> [colors |-> [c \in 0..3 |-> TileColor(0, 0, 0, 255)]]],
     spritePalettes_ |-> [i \in 0..7 |-> [colors |-> [c \in 0..3 |-> TileColor(0, 0, 0, 255)]]]]

SetMode(pm, mode) == [pm EXCEPT !.mode_ = mode]

\* a | b on unsigned values, bit by bit
RECURSIVE BitOr(_, _)
BitOr(a, b) ==
    IF a = 0 THEN b
    ELSE IF b = 0 THEN a
    ELSE (IF (a % 2) + (b % 2) > 0 THEN 1 ELSE 0) + (2 * BitOr(a \div 2, b \div 2))

\* a plausible slip: the low bits are not filled in
ConvertCGBColor_shiftOnly(cgbColor) ==
    LET r5 == cgbColor % 32
        g5 == (cgbColor \div 32) % 32
        b5 == (cgbColor \div 1024) % 32
    IN  TileColor((r5 * 8) % 256, (g5 * 8) % 256, (b5 * 8) % 256, 255)

\* & 0x1F keeps the low five bits; the results are stored in uint8_t
ConvertCGBColor(cgbColor) ==
    LET r5 == cgbColor % 32
        g5 == (cgbColor \div 32) % 32
        b5 == (cgbColor \div 1024) % 32
        r8 == BitOr(r5 * 8, r5 \div 4) % 256
        g8 == BitOr(g5 * 8, g5 \div 4) % 256
        b8 == BitOr(b5 * 8, b5 \div 4) % 256
    IN  TileColor(r8, g8, b8, 255)

ConvertCGBPalette(cgbPalette) ==
    [colors |-> [i \in 0..3 |-> ConvertCGBColor(cgbPalette.colors[i])]]

Min(a, b) == IF a < b THEN a ELSE b
Max(a, b) == IF a > b THEN a ELSE b

\* palettes: a caller's array of CGBPalette, or nullptr
SetBGPalettes(pm, palettes, count) ==
    IF palettes.null
    THEN pm
    ELSE LET actualCount == Min(count, 8) IN
         [pm EXCEPT !.bgPalettes_ =
             [i \in 0..7 |-> IF i < actualCount THEN ConvertCGBPalette(palettes.at[i]) ELSE @[i]]]

SetSpritePalettes(pm, palettes, count) ==
    IF palettes.null
    THEN pm
    ELSE LET actualCount == Min(count, 8) IN
         [pm EXCEPT !.spritePalettes_ =
             [i \in 0..7 |-> IF i < actualCount THEN ConvertCGBPalette(palettes.at[i]) ELSE @[i]]]

\* a plausible slip: the mode is not looked at
GetBGPalette_noModeCheck(pm, index) ==
    LET clampedIndex == Max(0, Min(index, 7)) IN pm.bgPalettes_[clampedIndex]

GetBGPalette(pm, index) ==
    IF pm.mode_ = "DMG"
    THEN pm.dmgPalette_
    ELSE LET clampedIndex == Max(0, Min(index, 7)) IN pm.bgPalettes_[clampedIndex]

GetSpritePalette(pm, index) ==
    IF pm.mode_ = "DMG"
    THEN pm.dmgPalette_
    ELSE LET clampedIndex == Max(0, Min(index, 7)) IN pm.spritePalettes_[clampedIndex]

SetSelectedBGPalette(pm, index) ==
    [pm EXCEPT !.selectedBGPalette_ = Max(0, Min(index, 7))]

\* a plausible slip: only the upper end is clamped
SetSelectedSpritePalette_upperOnly(pm, index) ==
    [pm EXCEPT !.selectedSpritePalette_ = Min(index, 7)]

SetSelectedSpritePalette(pm, index) ==
    [pm EXCEPT !.selectedSpritePalette_ = Max(0, Min(index, 7))]

(***************************************************************************)
(* OpenGL texture names.  With a context current glGenTextures yields a    *)
(* name that is not in use and is not 0; names are handed out in           *)
(* increasing order, so that a deleted name is never mistaken for a new    *)
(* one.                                                                    *)
(***************************************************************************)
GL_new == [live |-> {}, next |-> 1]

\* n successive glGenTextures(1, &textureId)
glGenTextures(g, n) ==
    [gl |-> [live |-> g.live \cup (g.next..(g.next + n - 1)), next |-> g.next + n],
     names |-> [i \in 1..n |-> g.next + i - 1]]

\* glDeleteTextures(1, &glId) for each of names
glDeleteTextures(g, names) == [g EXCEPT !.live = @ \ names]

(***************************************************************************)
(* TexturePool and TileRenderer (pools and legacy cache)                   *)
(*                                                                         *)
(* An operation that reaches OpenGL takes the context g and returns it     *)
(* with the object; generated and deleted count its glGenTextures and      *)
(* glDeleteTextures calls.                                                 *)
(***************************************************************************)
TexturePool_new ==
    [rows_ |-> 0, cols_ |-> 0, scale_ |-> 1, initialized_ |-> FALSE, textures_ |-> <<>>]

Clear(pool, g) ==
    LET held == {pool.textures_[i] : i \in DOMAIN pool.textures_} \ {0} IN
    [self |-> [pool EXCEPT !.textures_ = <<>>,
                           !.rows_ = 0,
                           !.cols_ = 0,
                           !.initialized_ = FALSE],
     gl |-> glDeleteTextures(g, held),
     deleted |-> Cardinality({i \in DOMAIN pool.textures_ : pool.textures_[i] /= 0})]

Initialize(pool, rows, cols, scale, g) ==
    LET c == Clear(pool, g)
        totalTextures == rows * cols
        t == glGenTextures(c.gl, totalTextures)
    IN  [self |-> [rows_ |-> rows, cols_ |-> cols, scale_ |-> scale,
                   initialized_ |-> TRUE, textures_ |-> t.names],
         gl |-> t.gl,
         generated |-> totalTextures,
         deleted |-> c.deleted]

\* a plausible slip: negative coordinates are not turned away
GetIndex_noLowerBound(pool, row, col) ==
    IF row >= pool.rows_ \/ col >= pool.cols_
    THEN -1
    ELSE row * pool.cols_ + col

GetIndex(pool, row, col) ==
    IF row < 0 \/ row >= pool.rows_ \/ col < 0 \/ col >= pool.cols_
    THEN -1
    ELSE row * pool.cols_ + col

GetTexture(pool, row, col) ==
    LET index == GetIndex(pool, row, col) IN
    IF index < 0 \/ index >= Len(pool.textures_)
    THEN 0
    ELSE pool.textures_[index + 1]

\* a plausible slip: a change of scale alone is not noticed
ReinitializeIfNeeded_ignoresScale(pool, rows, cols, scale, g) ==
    IF pool.initialized_ /\ pool.rows_ = rows /\ pool.cols_ = cols
    THEN [self |-> pool, gl |-> g, generated |-> 0, deleted |-> 0, ret |-> FALSE]
    ELSE LET i == Initialize(pool, rows, cols, scale, g) IN
         [self |-> i.self, gl |-> i.gl, generated |-> i.generated,
          deleted |-> i.deleted, ret |-> TRUE]

\* a plausible slip: the pool is rebuilt on every call
ReinitializeIfNeeded_always(pool, rows, cols, scale, g) ==
    LET i == Initialize(pool, rows, cols, scale, g) IN
    [self |-> i.self, gl |-> i.gl, generated |-> i.generated,
     deleted |-> i.deleted, ret |-> TRUE]

ReinitializeIfNeeded(pool, rows, cols, scale, g) ==
    IF pool.initialized_ /\ pool.rows_ = rows /\ pool.cols_ = cols /\ pool.scale_ = scale
    THEN [self |-> pool, gl |-> g, generated |-> 0, deleted |-> 0, ret |-> FALSE]
    ELSE LET i == Initialize(pool, rows, cols, scale, g) IN
         [self |-> i.self, gl |-> i.gl, generated |-> i.generated,
          deleted |-> i.deleted, ret |-> TRUE]

NoTiles == [i \in {} |-> 0]

TileRenderer_new ==
    [tileGridPool_ |-> TexturePool_new,
     spritePool_ |-> TexturePool_new,
     inspectorPool_ |-> TexturePool_new,
     tileTextures_ |-> NoTiles,
     dirtyFlags_ |-> NoTiles,
     currentScale_ |-> 2]

InitializeTileGridPool(r, rows, cols, scale, g) ==
    LET p == ReinitializeIfNeeded(r.tileGridPool_, rows, cols, scale, g) IN
    [self |-> [r EXCEPT !.tileGridPool_ = p.self, !.currentScale_ = scale],
     gl |-> p.gl]

InitializeSpritePool(r, maxSprites, scale, g) ==
    LET p == ReinitializeIfNeeded(r.spritePool_, maxSprites, 2, scale, g) IN
    [self |-> [r EXCEPT !.spritePool_ = p.self], gl |-> p.gl]

InitializeInspectorPool(r, scale, g) ==
    LET p == ReinitializeIfNeeded(r.inspectorPool_, 1, 1, scale, g) IN
    [self |-> [r EXCEPT !.inspectorPool_ = p.self], gl |-> p.gl]

\* The pooled render calls give back the texture at the pool position;
\* UpdateTexture writes pixels into it and generates no name.
RenderTileAt(r, row, col) ==
    IF ~r.tileGridPool_.initialized_ THEN 0 ELSE GetTexture(r.tileGridPool_, row, col)

RenderSpriteAt(r, spriteIndex, isBottomHalf) ==
    IF ~r.spritePool_.initialized_
    THEN 0
    ELSE LET col == IF isBottomHalf THEN 1 ELSE 0 IN
         GetTexture(r.spritePool_, spriteIndex, col)

RenderInspectorTile(r) ==
    IF ~r.inspectorPool_.initialized_ THEN 0 ELSE GetTexture(r.inspectorPool_, 0, 0)

MarkTileDirty(r, tileIndex) ==
    [r EXCEPT !.dirtyFlags_ =
        [i \in DOMAIN r.dirtyFlags_ \cup {tileIndex} |->
            IF i = tileIndex THEN TRUE ELSE r.dirtyFlags_[i]]]

MarkAllDirty(r) ==
    [r EXCEPT !.dirtyFlags_ =
        [i \in DOMAIN r.dirtyFlags_ \cup DOMAIN r.tileTextures_ |-> TRUE]]

IsTileDirty(r, tileIndex) ==
    IF tileIndex \in DOMAIN r.dirtyFlags_ THEN r.dirtyFlags_[tileIndex] ELSE TRUE

\* a plausible slip: the dirty flags outlive the textures
ClearTextures_keepsFlags(r, g) ==
    LET grid == Clear(r.tileGridPool_, g)
        sprite == Clear(r.spritePool_, grid.gl)
        inspector == Clear(r.inspectorPool_, sprite.gl)
        legacy == {r.tileTextures_[i] : i \in DOMAIN r.tileTextures_} \ {0}
    IN  [self |-> [r EXCEPT !.tileGridPool_ = grid.self,
                            !.spritePool_ = sprite.self,
                            !.inspectorPool_ = inspector.self,
                            !.tileTextures_ = NoTiles],
         gl |-> glDeleteTextures(inspector.gl, legacy)]

ClearTextures(r, g) ==
    LET grid == Clear(r.tileGridPool_, g)
        sprite == Clear(r.spritePool_, grid.gl)
        inspector == Clear(r.inspectorPool_, sprite.gl)
        legacy == {r.tileTextures_[i] : i \in DOMAIN r.tileTextures_} \ {0}
    IN  [self |-> [r EXCEPT !.tileGridPool_ = grid.self,
                            !.spritePool_ = sprite.self,
                            !.inspectorPool_ = inspector.self,
                            !.tileTextures_ = NoTiles,
                            !.dirtyFlags_ = NoTiles],
         gl |-> glDeleteTextures(inspector.gl, legacy)]

\* RenderTile / CreateTexture: the texture name glGenTextures yields, or 0
\* when it leaves textureId untouched (made = FALSE), the case RenderTile
\* and UpdateTiles test for
CreateTexture(g, made) ==
    IF made
    THEN LET t == glGenTextures(g, 1) IN [gl |-> t.gl, texture |-> t.names[1]]
    ELSE [gl |-> g, texture |-> 0]

\* UpdateTiles on one element of the vector
UpdateTile(r, tileIndex, made, g) ==
    IF tileIndex \notin DOMAIN r.tileTextures_
    THEN LET c == CreateTexture(g, made) IN
         IF c.texture /= 0
         THEN [self |-> [r EXCEPT !.tileTextures_ =
                            [i \in DOMAIN r.tileTextures_ \cup {tileIndex} |->
                                IF i = tileIndex THEN c.texture ELSE r.tileTextures_[i]],
                                  !.dirtyFlags_ =
                            [i \in DOMAIN r.dirtyFlags_ \cup {tileIndex} |->
                                IF i = tileIndex THEN FALSE ELSE r.dirtyFlags_[i]]],
               gl |-> c.gl]
         ELSE [self |-> r, gl |-> c.gl]
    ELSE IF IsTileDirty(r, tileIndex)
         THEN [self |-> [r EXCEPT !.dirtyFlags_ =
                            [i \in DOMAIN r.dirtyFlags_ \cup {tileIndex} |->
                                IF i = tileIndex THEN FALSE ELSE r.dirtyFlags_[i]]],
               gl |-> g]
         ELSE [self |-> r, gl |-> g]

RECURSIVE UpdateTiles(_, _, _, _)
UpdateTiles(r, tiles, made, g) ==
    IF tiles = <<>> THEN [self |-> r, gl |-> g]
    ELSE LET u == UpdateTile(r, Head(tiles), Head(made), g) IN
         UpdateTiles(u.self, Tail(tiles), Tail(made), u.gl)

(***************************************************************************)
(* VRAMViewerPanel                                                         *)
(***************************************************************************)
VRAMViewerState_new ==
    [mode |-> "DMG", currentBank |-> 0, selectedTile |-> -1, selectedPalette |-> 0,
     tileScale |-> 2, needsRefresh |-> TRUE]

VRAMViewerPanel_new ==
    [paletteManager_ |-> PaletteManager_new,
     renderer_ |-> TileRenderer_new,
     visible_ |-> TRUE,
     vramBank0External_ |-> 0,
     vramBank1External_ |-> 0,
     vramSource_ |-> "MappedMemory",
     vramBank0_ |-> Zeroed(VRAM_BANK_SIZE),
     vramBank1_ |-> Zeroed(VRAM_BANK_SIZE),
     oam_ |-> Zeroed(OAM_SIZE),
     bgPalettes_ |-> [i \in 0..7 |-> [colors |-> [c \in 0..3 |-> 0]]],
     spritePalettes_ |-> [i \in 0..7 |-> [colors |-> [c \in 0..3 |-> 0]]],
     state_ |-> VRAMViewerState_new,
     sprite8x16Mode |-> FALSE]

\* a plausible slip: 'size < VRAM_BANK_SIZE' in place of '!='
UpdateVRAM_acceptsLarger(self, buffer, size, bank) ==
    IF buffer.null \/ size < VRAM_BANK_SIZE \/ bank > 1
    THEN [self |-> self, ret |-> FALSE]
    ELSE IF self.state_.mode = "DMG" /\ bank /= 0
    THEN [self |-> self, ret |-> TRUE]
    ELSE [self |-> IF bank = 0
                   THEN [self EXCEPT !.vramBank0_ = Memcpy(buffer, VRAM_BANK_SIZE),
                                     !.state_.needsRefresh = TRUE]
                   ELSE [self EXCEPT !.vramBank1_ = Memcpy(buffer, VRAM_BANK_SIZE),
                                     !.state_.needsRefresh = TRUE],
          ret |-> TRUE]

\* a plausible slip: the DMG guard on bank 1 is missing
UpdateVRAM_noDMGGuard(self, buffer, size, bank) ==
    IF buffer.null \/ size /= VRAM_BANK_SIZE \/ bank > 1
    THEN [self |-> self, ret |-> FALSE]
    ELSE [self |-> IF bank = 0
                   THEN [self EXCEPT !.vramBank0_ = Memcpy(buffer, VRAM_BANK_SIZE),
                                     !.state_.needsRefresh = TRUE]
                   ELSE [self EXCEPT !.vramBank1_ = Memcpy(buffer, VRAM_BANK_SIZE),
                                     !.state_.needsRefresh = TRUE],
          ret |-> TRUE]

UpdateVRAM(self, buffer, size, bank) ==
    IF buffer.null
    THEN [self |-> self, ret |-> FALSE]
    ELSE IF size /= VRAM_BANK_SIZE
    THEN [self |-> self, ret |-> FALSE]
    ELSE IF bank > 1
    THEN [self |-> self, ret |-> FALSE]
    ELSE IF self.state_.mode = "DMG" /\ bank /= 0
    THEN [self |-> self, ret |-> TRUE]
    ELSE [self |-> IF bank = 0
                   THEN [self EXCEPT !.vramBank0_ = Memcpy(buffer, VRAM_BANK_SIZE),
                                     !.state_.needsRefresh = TRUE]
                   ELSE [self EXCEPT !.vramBank1_ = Memcpy(buffer, VRAM_BANK_SIZE),
                                     !.state_.needsRefresh = TRUE],
          ret |-> TRUE]

\* a plausible slip: only buffers that are too large are turned away
UpdateOAM_acceptsShorter(self, buffer, size) ==
    IF buffer.null
    THEN [self |-> self, ret |-> FALSE]
    ELSE IF size > OAM_SIZE
    THEN [self |-> self, ret |-> FALSE]
    ELSE [self |-> [self EXCEPT !.oam_ = Memcpy(buffer, OAM_SIZE),
                                !.state_.needsRefresh = TRUE],
          ret |-> TRUE]

UpdateOAM(self, buffer, size) ==
    IF buffer.null
    THEN [self |-> self, ret |-> FALSE]
    ELSE IF size /= OAM_SIZE
    THEN [self |-> self, ret |-> FALSE]
    ELSE [self |-> [self EXCEPT !.oam_ = Memcpy(buffer, OAM_SIZE),
                                !.state_.needsRefresh = TRUE],
          ret |-> TRUE]

\* a plausible slip: one set of palettes alone does not count as an update
UpdatePalettes_needsBoth(self, bgPalettes, spritePalettes) ==
    LET withBG ==
            IF ~bgPalettes.null
            THEN [self EXCEPT !.bgPalettes_ = [i \in 0..7 |-> bgPalettes.at[i]],
                              !.paletteManager_ = SetBGPalettes(@, bgPalettes, 8)]
            ELSE self
        withSprite ==
            IF ~spritePalettes.null
            THEN [withBG EXCEPT !.spritePalettes_ = [i \in 0..7 |-> spritePalettes.at[i]],
                                !.paletteManager_ = SetSpritePalettes(@, spritePalettes, 8)]
            ELSE withBG
        updated == ~bgPalettes.null /\ ~spritePalettes.null
    IN  IF updated
        THEN [self |-> [withSprite EXCEPT !.renderer_ = MarkAllDirty(@),
                                          !.state_.needsRefresh = TRUE],
              ret |-> TRUE]
        ELSE [self |-> withSprite, ret |-> FALSE]

\* bgPalettes, spritePalettes: callers' arrays of eight CGBPalette, or nullptr
UpdatePalettes(self, bgPalettes, spritePalettes) ==
    LET withBG ==
            IF ~bgPalettes.null
            THEN [self EXCEPT !.bgPalettes_ = [i \in 0..7 |-> bgPalettes.at[i]],
                              !.paletteManager_ = SetBGPalettes(@, bgPalettes, 8)]
            ELSE self
        withSprite ==
            IF ~spritePalettes.null
            THEN [withBG EXCEPT !.spritePalettes_ = [i \in 0..7 |-> spritePalettes.at[i]],
                                !.paletteManager_ = SetSpritePalettes(@, spritePalettes, 8)]
            ELSE withBG
        updated == ~bgPalettes.null \/ ~spritePalettes.null
    IN  IF updated
        THEN [self |-> [withSprite EXCEPT !.renderer_ = MarkAllDirty(@),
                                          !.state_.needsRefresh = TRUE],
              ret |-> TRUE]
        ELSE [self |-> withSprite, ret |-> FALSE]

\* a plausible slip: the renderer is not told about the new mode
SetEmulationMode_noDirtyMark(self, mode) ==
    IF self.state_.mode /= mode
    THEN [self EXCEPT !.state_.mode = mode,
                      !.paletteManager_ = SetMode(self.paletteManager_, mode),
                      !.state_.currentBank = 0,
                      !.state_.needsRefresh = TRUE]
    ELSE self

SetEmulationMode(self, mode) ==
    IF self.state_.mode /= mode
    THEN [self EXCEPT !.state_.mode = mode,
                      !.paletteManager_ = SetMode(self.paletteManager_, mode),
                      !.state_.currentBank = 0,
                      !.renderer_ = MarkAllDirty(self.renderer_),
                      !.state_.needsRefresh = TRUE]
    ELSE self

\* a plausible slip: a null argument keeps the pointer stored before
SetVRAMBankData_keepsOld(self, bank0, bank1) ==
    [self EXCEPT !.vramBank0External_ = IF bank0 /= 0 THEN bank0 ELSE @,
                 !.vramBank1External_ = IF bank1 /= 0 THEN bank1 ELSE @,
                 !.vramSource_ = IF bank0 = 0 /\ bank1 = 0 THEN "MappedMemory" ELSE @,
                 !.state_.needsRefresh = TRUE]

SetVRAMBankData(self, bank0, bank1) ==
    [self EXCEPT !.vramBank0External_ = bank0,
                 !.vramBank1External_ = bank1,
                 !.vramSource_ = IF bank0 = 0 /\ bank1 = 0 THEN "MappedMemory" ELSE @,
                 !.state_.needsRefresh = TRUE]

\* The buffers GetVRAMData can hand out: the panel's own arrays, or an
\* external bank pointer (a non-zero number; 0 is nullptr).
InternalBank0 == [owner |-> "vramBank0_", ext |-> 0]
InternalBank1 == [owner |-> "vramBank1_", ext |-> 0]
External(p) == [owner |-> "caller", ext |-> p]

\* a plausible slip: a missing bank 1 falls back to the internal bank 1
GetVRAMData_bank1Fallback(self) ==
    CASE self.vramSource_ = "Bank0" ->
            IF self.vramBank0External_ /= 0
            THEN External(self.vramBank0External_)
            ELSE InternalBank0
      [] self.vramSource_ = "Bank1" ->
            IF self.vramBank1External_ /= 0
            THEN External(self.vramBank1External_)
            ELSE InternalBank1
      [] OTHER -> InternalBank0

GetVRAMData(self) ==
    CASE self.vramSource_ = "Bank0" ->
            IF self.vramBank0External_ /= 0
            THEN External(self.vramBank0External_)
            ELSE InternalBank0
      [] self.vramSource_ = "Bank1" ->
            IF self.vramBank1External_ /= 0
            THEN External(self.vramBank1External_)
            ELSE InternalBank0
      [] OTHER -> InternalBank0

(***************************************************************************)
(* SpriteParser                                                            *)
(***************************************************************************)
Bit(byte, n) == (byte \div (2 ^ n)) % 2

\* a plausible slip: bits 6 and 5 are read the other way round
ParseSprite_flipsSwapped(entry) ==
    IF entry.null
    THEN [y |-> 0, x |-> 0, tileIndex |-> 0, flags |-> 0, priority |-> FALSE,
          yFlip |-> FALSE, xFlip |-> FALSE, paletteNumber |-> 0, vramBank |-> 0]
    ELSE LET flags == ByteAt(entry, 3) IN
         [y |-> ByteAt(entry, 0),
          x |-> ByteAt(entry, 1),
          tileIndex |-> ByteAt(entry, 2),
          flags |-> flags,
          priority |-> Bit(flags, 7) /= 0,
          yFlip |-> Bit(flags, 5) /= 0,
          xFlip |-> Bit(flags, 6) /= 0,
          paletteNumber |-> Bit(flags, 4),
          vramBank |-> Bit(flags, 3)]

ParseSprite(entry) ==
    IF entry.null
    THEN [y |-> 0, x |-> 0, tileIndex |-> 0, flags |-> 0, priority |-> FALSE,
          yFlip |-> FALSE, xFlip |-> FALSE, paletteNumber |-> 0, vramBank |-> 0]
    ELSE LET flags == ByteAt(entry, 3) IN
         [y |-> ByteAt(entry, 0),
          x |-> ByteAt(entry, 1),
          tileIndex |-> ByteAt(entry, 2),
          flags |-> flags,
          priority |-> Bit(flags, 7) /= 0,
          yFlip |-> Bit(flags, 6) /= 0,
          xFlip |-> Bit(flags, 5) /= 0,
          paletteNumber |-> Bit(flags, 4),
          vramBank |-> Bit(flags, 3)]

\* a plausible slip: the lower edges are taken for visible
IsSpriteVisible_edgesIncluded(sprite) ==
    IF sprite.y = 0 \/ sprite.y > 160
    THEN FALSE
    ELSE IF sprite.x = 0 \/ sprite.x > 168
    THEN FALSE
    ELSE TRUE

IsSpriteVisible(sprite) ==
    IF sprite.y = 0 \/ sprite.y >= 160
    THEN FALSE
    ELSE IF sprite.x = 0 \/ sprite.x >= 168
    THEN FALSE
    ELSE TRUE

\* the sprites vector, 1-based: element i + 1 is sprite i
ParseOAM(oam, size) ==
    IF oam.null \/ size < OAM_SIZE
    THEN <<>>
    ELSE [k \in 1..MAX_SPRITES |-> ParseSprite(PtrAdd(oam, (k - 1) * SPRITE_ENTRY_SIZE))]

(***************************************************************************)
(* TileDecoder: the bytes of the buffer a DecodeTile call reads            *)
(***************************************************************************)
\* static_cast<uint16_t>(v)
ToUint16(v) == v % 65536

\* a plausible slip: the index is taken for a byte
GetTileAddress_byteIndex(tileIndex) == ToUint16(VRAM_BASE + ((tileIndex % 256) * 16))

\* the int sum is converted to the uint16_t return type
GetTileAddress(tileIndex) == ToUint16(VRAM_BASE + (tileIndex * 16))

\* a plausible slip: the two bit planes are combined the other way round
DecodePixel_planesSwapped(tileData, x, y, hFlip, vFlip) ==
    LET actualY == IF vFlip THEN 7 - y ELSE y
        actualX == IF hFlip THEN 7 - x ELSE x
        rowOffset == actualY * 2
        lsbByte == ByteAt(tileData, rowOffset)
        msbByte == ByteAt(tileData, rowOffset + 1)
        bitPosition == 7 - actualX
        lsb == Bit(lsbByte, bitPosition)
        msb == Bit(msbByte, bitPosition)
    IN  (lsb * 2) + msb

\* a plausible slip: the high bit plane is dropped
DecodePixel_lowPlaneOnly(tileData, x, y, hFlip, vFlip) ==
    LET actualY == IF vFlip THEN 7 - y ELSE y
        actualX == IF hFlip THEN 7 - x ELSE x
        rowOffset == actualY * 2
        lsbByte == ByteAt(tileData, rowOffset)
        bitPosition == 7 - actualX
    IN  Bit(lsbByte, bitPosition)

\* (msb << 1) | lsb of two single bits
DecodePixel(tileData, x, y, hFlip, vFlip) ==
    LET actualY == IF vFlip THEN 7 - y ELSE y
        actualX == IF hFlip THEN 7 - x ELSE x
        rowOffset == actualY * 2
        lsbByte == ByteAt(tileData, rowOffset)
        msbByte == ByteAt(tileData, rowOffset + 1)
        bitPosition == 7 - actualX
        lsb == Bit(lsbByte, bitPosition)
        msb == Bit(msbByte, bitPosition)
    IN  (msb * 2) + lsb

\* the pixelData array DecodeTile returns: pixelData[y][x]
DecodeTile_pixelData(vram, tileIndex, bank) ==
    LET offset == ToUint16(tileIndex * 16)
        tileData == PtrAdd(vram, offset)
    IN  [y \in 0..7 |-> [x \in 0..7 |-> DecodePixel(tileData, x, y, FALSE, FALSE)]]

\* DecodeTile(vram, tileIndex, bank) reads tileData[0..15] with
\* tileData = vram + uint16_t(tileIndex * 16), tileIndex a uint16_t
DecodeTile(vram, tileIndex, bank) ==
    LET offset == ToUint16(tileIndex * 16) IN
    [buffer |-> vram, first |-> offset, last |-> offset + 2 * 7 + 1]

(***************************************************************************)
(* VRAMViewerPanel: the render pass                                        *)
(***************************************************************************)
\* combo: the entry picked in the "VRAM Source" combo box this frame, or
\* "none"
RenderVRAMBankSelector(self, combo) ==
    IF ~(self.vramBank0External_ /= 0 \/ self.vramBank1External_ /= 0)
    THEN self
    ELSE IF combo = "none"
    THEN self
    ELSE IF combo = "Bank1" /\ self.vramBank1External_ = 0
    THEN self
    ELSE [self EXCEPT !.vramSource_ = combo,
                      !.state_.needsRefresh = TRUE,
                      !.renderer_ = MarkAllDirty(self.renderer_)]

\* click: the tile clicked in the grid this frame, or -1
RenderTileGrid(self, click, g) ==
    LET tileCount == TILE_COUNT
        vramBuffer == GetVRAMData(self)
        numRows == (tileCount + TILES_PER_ROW - 1) \div TILES_PER_ROW
        r == InitializeTileGridPool(self.renderer_, numRows, TILES_PER_ROW,
                                    self.state_.tileScale, g)
    IN  [vramBuffer |-> vramBuffer,
         self |-> [self EXCEPT
                    !.renderer_ = r.self,
                    !.state_.selectedTile = IF click \in 0..(tileCount - 1) THEN click ELSE @,
                    !.state_.needsRefresh = FALSE],
         gl |-> r.gl]

\* the DecodeTile calls RenderTileGrid issues
RenderTileGridDecodes(self) ==
    LET tileCount == TILE_COUNT
        vramBuffer == GetVRAMData(self)
    IN  {DecodeTile(vramBuffer, ToUint16(i), self.state_.currentBank)
            : i \in 0..(tileCount - 1)}

\* open: the "Tile Inspector" header is expanded; clear: "Clear Selection"
\* is pressed
RenderTileInspector(self, open, clear, g) ==
    IF ~open
    THEN [self |-> self, gl |-> g]
    ELSE LET r == InitializeInspectorPool(self.renderer_, InspectorScale, g) IN
         [self |-> [self EXCEPT
                     !.renderer_ = r.self,
                     !.state_.selectedTile = IF clear THEN -1 ELSE @],
          gl |-> r.gl]

\* the DecodeTile call RenderTileInspector issues
RenderTileInspectorDecodes(self, open) ==
    IF ~open
    THEN {}
    ELSE LET tileIndex == self.state_.selectedTile
             vramBuffer == GetVRAMData(self)
             bankForDecoding ==
                 IF self.vramSource_ = "Bank1" THEN 1
                 ELSE IF self.vramSource_ = "MappedMemory" THEN self.state_.currentBank
                 ELSE 0
         IN  {DecodeTile(vramBuffer, ToUint16(tileIndex), bankForDecoding)}

\* the decodes issued for one sprite
SpriteDecodes(self, sprite, sprite8x16Mode) ==
    LET vramBuffer ==
            IF self.state_.mode = "CGB" /\ sprite.vramBank = 1
            THEN InternalBank1 ELSE InternalBank0
        tileIndex ==
            IF sprite8x16Mode
            THEN sprite.tileIndex - (sprite.tileIndex % 2)
            ELSE sprite.tileIndex
        bottomTileIndex == IF tileIndex % 2 = 0 THEN tileIndex + 1 ELSE tileIndex
    IN  {DecodeTile(vramBuffer, tileIndex, sprite.vramBank)}
        \cup (IF sprite8x16Mode
              THEN {DecodeTile(vramBuffer, bottomTileIndex, sprite.vramBank)}
              ELSE {})

\* open: the "Sprite View" header is expanded; toggle: the "8x16 Mode"
\* checkbox is clicked
RenderSpriteView(self, open, toggle, g) ==
    IF ~open
    THEN [self |-> self, gl |-> g]
    ELSE LET sprite8x16Mode == IF toggle THEN ~self.sprite8x16Mode ELSE self.sprite8x16Mode
             r == InitializeSpritePool(self.renderer_, MAX_SPRITES, SpritePoolScale, g)
         IN  [self |-> [self EXCEPT
                         !.sprite8x16Mode = sprite8x16Mode,
                         !.renderer_ = r.self],
              gl |-> r.gl]

\* the DecodeTile calls RenderSpriteView issues
RenderSpriteViewDecodes(self, open, toggle) ==
    IF ~open
    THEN {}
    ELSE LET sprites == ParseOAM(PtrTo(self.oam_), self.oam_.len)
             sprite8x16Mode == IF toggle THEN ~self.sprite8x16Mode ELSE self.sprite8x16Mode
         IN  UNION {SpriteDecodes(self, sprites[k], sprite8x16Mode)
                        : k \in 1..Len(sprites)}

Render(self, ui, g0) ==
    IF ~self.visible_
    THEN [self |-> self, vramBuffer |-> InternalBank0, gl |-> g0]
    ELSE LET s1 == RenderVRAMBankSelector(self, ui.combo)
             g == RenderTileGrid(s1, ui.click, g0)
             t == RenderTileInspector(g.self, ui.inspectorOpen, ui.clear, g.gl)
             v == RenderSpriteView(t.self, ui.spriteOpen, ui.toggle8x16, t.gl)
         IN  [self |-> v.self, vramBuffer |-> g.vramBuffer, gl |-> v.gl]

\* the DecodeTile calls of one Render pass
RenderDecodes(self, ui, g0) ==
    IF ~self.visible_
    THEN {}
    ELSE LET s1 == RenderVRAMBankSelector(self, ui.combo)
             g == RenderTileGrid(s1, ui.click, g0)
             t == RenderTileInspector(g.self, ui.inspectorOpen, ui.clear, g.gl)
         IN  RenderTileGridDecodes(s1)
             \cup RenderTileInspectorDecodes(g.self, ui.inspectorOpen)
             \cup RenderSpriteViewDecodes(t.self, ui.spriteOpen, ui.toggle8x16)

SetVisible(self, visible) == [self EXCEPT !.visible_ = visible]

(***************************************************************************)
(* MemoryViewerPanel                                                       *)
(***************************************************************************)
\* RegionBankState()
RegionBankState_new == [source |-> "MappedMemory", bankNumber |-> 0]

MemoryViewerPanel_new ==
    [state_ |-> [buffer |-> Zeroed(MEMORY_SIZE), is_valid |-> FALSE],
     visible_ |-> TRUE,
     bankData_ |-> FALSE,
     vramBankState_ |-> RegionBankState_new,
     romBankState_ |-> RegionBankState_new,
     ramBankState_ |-> RegionBankState_new]

\* a plausible slip: 'size < 65536' in place of '!='
Update_acceptsLarger(self, buffer, size) ==
    IF buffer.null \/ size < MEMORY_SIZE
    THEN [self |-> self, ret |-> FALSE]
    ELSE [self |-> [self EXCEPT !.state_.buffer = Memcpy(buffer, MEMORY_SIZE),
                                !.state_.is_valid = TRUE],
          ret |-> TRUE]

Update(self, buffer, size) ==
    IF buffer.null \/ size /= MEMORY_SIZE
    THEN [self |-> self, ret |-> FALSE]
    ELSE [self |-> [self EXCEPT !.state_.buffer = Memcpy(buffer, size),
                                !.state_.is_valid = TRUE],
          ret |-> TRUE]

\* bankData is attached (a non-null BankData*) or not
SetBankData(self, bankData) == [self EXCEPT !.bankData_ = bankData]

\* What a read of the panel yields: a byte of the 64KB copy, or the byte at
\* offset of the caller's bank ptr, which is element index of its region's
\* bank array.
MappedByte(self, address) ==
    [from |-> "mapped", address |-> address, byte |-> ByteAt(self.state_.buffer, address)]
BankByte(region, index, ptr, offset) ==
    [from |-> "bank", region |-> region, index |-> index, ptr |-> ptr, offset |-> offset]

\* a plausible slip: the bank pointer is not compared with nullptr
GetDataSource_noNullCheck(self, bd, address, state) ==
    IF state.source = "MappedMemory" \/ ~self.bankData_
    THEN MappedByte(self, address)
    ELSE IF address >= 32768 /\ address <= 40959
    THEN IF /\ bd.vramBanksProvided
            /\ state.bankNumber < 2
         THEN BankByte("vram", state.bankNumber, bd.vramBanks[state.bankNumber + 1],
                       address - 32768)
         ELSE MappedByte(self, address)
    ELSE IF address >= 16384 /\ address <= 32767
    THEN IF /\ bd.romBanksProvided
            /\ state.bankNumber < bd.romBankCount
         THEN BankByte("rom", state.bankNumber, ByteAt(bd.romBanks, state.bankNumber),
                       address - 16384)
         ELSE MappedByte(self, address)
    ELSE IF address >= 40960 /\ address <= 49151
    THEN IF /\ bd.ramBanksProvided
            /\ state.bankNumber < bd.ramBankCount
            /\ address - 40960 < bd.ramBankSize
         THEN BankByte("ram", state.bankNumber, ByteAt(bd.ramBanks, state.bankNumber),
                       address - 40960)
         ELSE MappedByte(self, address)
    ELSE MappedByte(self, address)

\* bd: the BankData bankData_ points to, when it is not null
GetDataSource(self, bd, address, state) ==
    IF state.source = "MappedMemory" \/ ~self.bankData_
    THEN MappedByte(self, address)
    ELSE IF address >= 32768 /\ address <= 40959
    THEN IF /\ bd.vramBanksProvided
            /\ state.bankNumber < 2
            /\ bd.vramBanks[state.bankNumber + 1] /= 0
         THEN BankByte("vram", state.bankNumber, bd.vramBanks[state.bankNumber + 1],
                       address - 32768)
         ELSE MappedByte(self, address)
    ELSE IF address >= 16384 /\ address <= 32767
    THEN IF /\ bd.romBanksProvided
            /\ state.bankNumber < bd.romBankCount
            /\ ByteAt(bd.romBanks, state.bankNumber) /= 0
         THEN BankByte("rom", state.bankNumber, ByteAt(bd.romBanks, state.bankNumber),
                       address - 16384)
         ELSE MappedByte(self, address)
    ELSE IF address >= 40960 /\ address <= 49151
    THEN IF /\ bd.ramBanksProvided
            /\ state.bankNumber < bd.ramBankCount
            /\ ByteAt(bd.ramBanks, state.bankNumber) /= 0
            /\ address - 40960 < bd.ramBankSize
         THEN BankByte("ram", state.bankNumber, ByteAt(bd.ramBanks, state.bankNumber),
                       address - 40960)
         ELSE MappedByte(self, address)
    ELSE MappedByte(self, address)

\* pick: the combo item chosen this frame, if any
RenderBankSelector(state, pick, maxBank) ==
    IF pick.item = "MappedMemory"
    THEN [source |-> "MappedMemory", bankNumber |-> 0]
    ELSE IF pick.item = "Bank" /\ pick.bank < maxBank
    THEN [source |-> "SpecificBank", bankNumber |-> pick.bank]
    ELSE state

\* the addresses of a region whose displayed bytes are recorded
Probes(region) == {region.start, region.start + 15, region.start + 16, region.end}

\* reads: the byte shown at each recorded address
RenderMemoryRegion(self, bd, region, pick) ==
    LET s1 == IF region.start = 32768 /\ region.end = 40959
              THEN IF self.bankData_ /\ bd.vramBanksProvided
                   THEN [self EXCEPT !.vramBankState_ = RenderBankSelector(@, pick, 2)]
                   ELSE self
              ELSE IF region.start = 16384 /\ region.end = 32767
              THEN IF self.bankData_ /\ bd.romBanksProvided /\ bd.romBankCount > 0
                   THEN [self EXCEPT !.romBankState_ =
                                        RenderBankSelector(@, pick, bd.romBankCount)]
                   ELSE self
              ELSE IF region.start = 40960 /\ region.end = 49151
              THEN IF self.bankData_ /\ bd.ramBanksProvided /\ bd.ramBankCount > 0
                   THEN [self EXCEPT !.ramBankState_ =
                                        RenderBankSelector(@, pick, bd.ramBankCount)]
                   ELSE self
              ELSE self
        currentBankState ==
              IF region.start = 32768 /\ region.end = 40959 THEN <<s1.vramBankState_>>
              ELSE IF region.start = 16384 /\ region.end = 32767 THEN <<s1.romBankState_>>
              ELSE IF region.start = 40960 /\ region.end = 49151 THEN <<s1.ramBankState_>>
              ELSE <<>>
    IN  [self |-> s1,
         reads |-> [a \in Probes(region) |->
                       IF currentBankState /= <<>>
                       THEN GetDataSource(s1, bd, a, currentBankState[1])
                       ELSE MappedByte(s1, a)]]

\* ui.open: the regions whose header is expanded (none, or one);
\* ui.pick: the bank combo item chosen in it
RenderMemoryViewer(self, bd, ui) ==
    IF ~self.visible_ \/ ~self.state_.is_valid \/ ui.open = <<>>
    THEN [self |-> self, reads |-> <<>>]
    ELSE RenderMemoryRegion(self, bd, ui.open[1], ui.pick)

(***************************************************************************)
(* GBDebugger                                                              *)
(***************************************************************************)
\* romBanks and ramBanks are arrays of pointers: 0 is nullptr
BankData_new ==
    [vramBanks |-> <<0, 0>>, vramBanksProvided |-> FALSE,
     romBanks |-> Zeroed(ROM_BANKS), romBankCount |-> 0, romBanksProvided |-> FALSE,
     ramBanks |-> Zeroed(RAM_BANKS), ramBankCount |-> 0, ramBankSize |-> 0,
     ramBanksProvided |-> FALSE]

\* The backend as the facade sees it: the last call made on it, and
\* whether an Initialize call has returned false.
DebuggerBackend_new == [last |-> "none", failed |-> FALSE]

\* GBDebugger::Open; initialized: what backend_->Initialize returns
Open(is_open, backend, initialized) ==
    IF is_open
    THEN [is_open_ |-> TRUE, backend_ |-> backend, ret |-> TRUE, call |-> "none"]
    ELSE IF ~initialized
    THEN [is_open_ |-> FALSE, backend_ |-> [last |-> "Initialize", failed |-> TRUE],
          ret |-> FALSE, call |-> "Initialize"]
    ELSE [is_open_ |-> TRUE, backend_ |-> [backend EXCEPT !.last = "Initialize"],
          ret |-> TRUE, call |-> "Initialize"]

\* a plausible slip: the backend is shut down whether open or not
Close_alwaysShutdown(is_open, backend) ==
    [is_open_ |-> FALSE, backend_ |-> [backend EXCEPT !.last = "Shutdown"],
     call |-> "Shutdown"]

\* GBDebugger::Close
Close(is_open, backend) ==
    IF ~is_open
    THEN [is_open_ |-> FALSE, backend_ |-> backend, call |-> "none"]
    ELSE [is_open_ |-> FALSE, backend_ |-> [backend EXCEPT !.last = "Shutdown"],
          call |-> "Shutdown"]

\* a plausible slip: only 0x80 is taken for a CGB cartridge
DetectMode_only80(cgbFlag) == IF cgbFlag = 128 THEN "CGB" ELSE "DMG"

\* the emulation mode UpdateMemory derives from the cartridge header byte
DetectMode(cgbFlag) == IF cgbFlag = 128 \/ cgbFlag = 192 THEN "CGB" ELSE "DMG"

\* mp, vp: memory_panel_ and vram_panel_
UpdateMemory(mp, vp, buffer, size) ==
    LET r == Update(mp, buffer, size) IN
    IF r.ret /\ ~buffer.null /\ size = 65536
    THEN LET cgbFlag == ByteAt(buffer, CGB_FLAG_ADDR)
             p1 == SetEmulationMode(vp, DetectMode(cgbFlag))
             p2 == UpdateVRAM(p1, PtrAdd(buffer, VRAM_BASE), 8192, 0).self
             p3 == UpdateOAM(p2, PtrAdd(buffer, OAM_BASE), 160).self
         IN  [memory_panel_ |-> r.self, vram_panel_ |-> p3, ret |-> r.ret]
    ELSE [memory_panel_ |-> r.self, vram_panel_ |-> vp, ret |-> r.ret]

\* bd, mp, vp: bankData_, memory_panel_ and vram_panel_
SetVRAMBank(bd, mp, vp, bank, data) ==
    IF bank > 1
    THEN [bankData_ |-> bd, memory_panel_ |-> mp, vram_panel_ |-> vp, ret |-> FALSE]
    ELSE LET banks == [bd.vramBanks EXCEPT ![bank + 1] = data]
             bd1 == [bd EXCEPT !.vramBanks = banks,
                               !.vramBanksProvided = IF data /= 0 THEN TRUE ELSE @]
         IN  [bankData_ |-> bd1,
              memory_panel_ |-> SetBankData(mp, TRUE),
              vram_panel_ |-> SetVRAMBankData(vp, banks[1], banks[2]),
              ret |-> TRUE]

\* the indices 0..count-1 in the order of the loop
Indices(count) == [k \in 1..count |-> k - 1]

\* a plausible slip: the pointers past count are not reset
SetROMBanks_keepsTail(bd, mp, count, getBankFunc) ==
    IF count < 1 \/ count > 512
    THEN [bankData_ |-> bd, memory_panel_ |-> mp, ret |-> FALSE, calls |-> <<>>]
    ELSE LET banks == Array(ROM_BANKS, 0,
                            [i \in (0..(count - 1)) \cup DOMAIN bd.romBanks.at |->
                                IF i < count THEN getBankFunc[i] ELSE bd.romBanks.at[i]])
         IN  [bankData_ |-> [bd EXCEPT !.romBanks = banks,
                                       !.romBankCount = count,
                                       !.romBanksProvided = TRUE],
              memory_panel_ |-> SetBankData(mp, TRUE),
              ret |-> TRUE,
              calls |-> Indices(count)]

\* getBankFunc: the caller's function, by its value at each index;
\* calls: the indices it was invoked with, in order
SetROMBanks(bd, mp, count, getBankFunc) ==
    IF count < 1 \/ count > 512
    THEN [bankData_ |-> bd, memory_panel_ |-> mp, ret |-> FALSE, calls |-> <<>>]
    ELSE LET banks == Array(ROM_BANKS, 0, [i \in 0..(count - 1) |-> getBankFunc[i]])
         IN  [bankData_ |-> [bd EXCEPT !.romBanks = banks,
                                       !.romBankCount = count,
                                       !.romBanksProvided = TRUE],
              memory_panel_ |-> SetBankData(mp, TRUE),
              ret |-> TRUE,
              calls |-> Indices(count)]

SetRAMBanks(bd, mp, count, bankSize, getBankFunc) ==
    IF count > 16
    THEN [bankData_ |-> bd, memory_panel_ |-> mp, ret |-> FALSE, calls |-> <<>>]
    ELSE LET banks == Array(RAM_BANKS, 0, [i \in 0..(count - 1) |-> getBankFunc[i]])
         IN  [bankData_ |-> [bd EXCEPT !.ramBanks = banks,
                                       !.ramBankCount = count,
                                       !.ramBankSize = bankSize,
                                       !.ramBanksProvided = TRUE],
              memory_panel_ |-> SetBankData(mp, TRUE),
              ret |-> TRUE,
              calls |-> Indices(count)]

\* a plausible slip: the VRAM viewer is not told
ClearBankData_keepsSource(bd, mp, vp) ==
    [bankData_ |-> [bd EXCEPT !.vramBanks = <<0, 0>>, !.vramBanksProvided = FALSE,
                              !.romBanks = Zeroed(ROM_BANKS), !.romBankCount = 0,
                              !.romBanksProvided = FALSE,
                              !.ramBanks = Zeroed(RAM_BANKS), !.ramBankCount = 0,
                              !.ramBankSize = 0, !.ramBanksProvided = FALSE],
     memory_panel_ |-> SetBankData(mp, FALSE),
     vram_panel_ |-> vp]

ClearBankData(bd, mp, vp) ==
    [bankData_ |-> [bd EXCEPT !.vramBanks = <<0, 0>>, !.vramBanksProvided = FALSE,
                              !.romBanks = Zeroed(ROM_BANKS), !.romBankCount = 0,
                              !.romBanksProvided = FALSE,
                              !.ramBanks = Zeroed(RAM_BANKS), !.ramBankCount = 0,
                              !.ramBankSize = 0, !.ramBanksProvided = FALSE],
     memory_panel_ |-> SetBankData(mp, FALSE),
     vram_panel_ |-> SetVRAMBankData(vp, 0, 0)]

(***************************************************************************)
(* Inputs                                                                  *)
(***************************************************************************)
\* 8192-byte VRAM images, and images one byte short and one byte long
VramA == Array(8192, 0, (0 :> 255) @@ (8191 :> 1))
VramB == Array(8192, 170, (16 :> 0))
VramShort == Array(8191, 0, (0 :> 255))
VramLong == Array(8193, 0, (0 :> 254) @@ (8192 :> 7))

UpdateVRAMInputs ==
    {[buffer |-> NullPtr, size |-> 8192],
     [buffer |-> PtrTo(VramA), size |-> 8192],
     [buffer |-> PtrTo(VramB), size |-> 8192],
     [buffer |-> PtrTo(VramShort), size |-> 8191],
     [buffer |-> PtrTo(VramLong), size |-> 8193]}

BankInputs == {0, 1, 2, 255}

\* 160-byte OAM images: sprite 0 uses tile 255 of bank 1, sprite 39 tile 254
OamA == Array(160, 0, (0 :> 46) @@ (1 :> 28) @@ (2 :> 255) @@ (3 :> 8) @@ (158 :> 254))
OamB == Array(160, 0, (0 :> 46) @@ (1 :> 28) @@ (2 :> 1))

UpdateOAMInputs ==
    {[buffer |-> NullPtr, size |-> 160],
     [buffer |-> PtrTo(OamA), size |-> 160],
     [buffer |-> PtrTo(OamB), size |-> 160],
     [buffer |-> PtrTo(OamA), size |-> 159],
     [buffer |-> PtrTo(VramShort), size |-> 161]}

\* 64KB memory images: the cartridge header byte, with marked bytes at the
\* first and last offsets of VRAM and OAM and at the offsets next to them
HeaderBytes == {0, 1, 64, 128, 129, 192, 255}

MemoryImage(cgbFlag, v) ==
    Array(65536, 0,
          (323 :> cgbFlag) @@
          (32767 :> 51) @@ (32768 :> v) @@ (40959 :> 34) @@ (40960 :> 68) @@
          (65023 :> 85) @@ (65024 :> 46) @@ (65025 :> 28) @@ (65026 :> v) @@
          (65183 :> 5) @@ (65184 :> 102))

UpdateMemoryInputs ==
    {[buffer |-> PtrTo(MemoryImage(f, 17)), size |-> 65536] : f \in HeaderBytes}
    \cup {[buffer |-> PtrTo(MemoryImage(0, 200)), size |-> 65536],
          [buffer |-> NullPtr, size |-> 65536],
          [buffer |-> PtrTo(MemoryImage(128, 17)), size |-> 1024],
          [buffer |-> PtrTo(MemoryImage(192, 200)), size |-> 100000],
          [buffer |-> PtrTo(MemoryImage(128, 200)), size |-> 65535]}

\* ParseOAM arguments: buffers of several sizes around 160, and nullptr
ParseSizes == {0, 1, 4, 156, 159, 160, 161, 164, 320}

ParseImages ==
    {Array(n, f, [i \in {k \in {0, 1, 2, 3, 156, 159} : k < n} |->
                    CASE i = 0 -> y [] i = 1 -> 28 [] i = 2 -> 1 [] i = 3 -> fl
                      [] i = 156 -> 159 [] OTHER -> 168])
        : n \in ParseSizes, f \in {0, 255}, y \in {0, 46}, fl \in {0, 136}}

ParseInputs ==
    {[oam |-> PtrTo(a), size |-> a.len] : a \in ParseImages}
    \cup {[oam |-> NullPtr, size |-> n] : n \in ParseSizes}

\* 4-byte OAM entries: every y and every x against the positions at the
\* screen edges, the edges with all flag bits set, and every flag byte
OamEntry(y, x, tileIndex, flags) ==
    Array(SPRITE_ENTRY_SIZE, 0, (0 :> y) @@ (1 :> x) @@ (2 :> tileIndex) @@ (3 :> flags))

EdgeCoordinates == {0, 1, 8, 16, 46, 159, 160, 161, 167, 168, 169, 255}

SpriteInputs ==
    {[entry |-> PtrTo(OamEntry(y, x, 1, 0))] : y \in 0..255, x \in EdgeCoordinates}
    \cup {[entry |-> PtrTo(OamEntry(y, x, 1, 0))] : y \in EdgeCoordinates, x \in 0..255}
    \cup {[entry |-> PtrTo(OamEntry(y, x, 255, 255))] : y, x \in EdgeCoordinates}
    \cup {[entry |-> PtrTo(OamEntry(46, 28, t, f))] : t \in {0, 1, 255}, f \in 0..255}
    \cup {[entry |-> NullPtr]}

\* VRAM banks for the tile decoder: one bit set or one bit cleared in one
\* byte of a tile, and banks with mixed bytes in the tile and its neighbours
OneBitBank(fill, tileIndex, byte, bit) ==
    Array(VRAM_BANK_SIZE, fill,
          ((tileIndex * 16) + byte) :> (IF fill = 0 THEN 2 ^ bit ELSE fill - (2 ^ bit)))

PatternBank(k, t) ==
    Array(VRAM_BANK_SIZE, k * 170,
          [i \in UNION {((16 * u)..((16 * u) + 15)) : u \in {0, t, (t + 1) % 512, 511 - t}} |->
              ((i * i * 7) + (i * (k + 3) * 29) + (k * 113) + ((i \div 16) * 51)) % 256])

TileInputs ==
    {[vram |-> PtrTo(OneBitBank(f, t, b, n)), tileIndex |-> t, bank |-> bk] :
        f \in {0, 255}, t \in {0, 383, 511}, b \in 0..15, n \in 0..7, bk \in {0, 1}}
    \cup {[vram |-> PtrTo(PatternBank(0, t)), tileIndex |-> t, bank |-> bk] :
        t \in 0..511, bk \in {0, 1}}
    \cup {[vram |-> PtrTo(PatternBank(1, t)), tileIndex |-> t, bank |-> bk] :
        t \in {0, 255, 256, 511}, bk \in {0, 1}}
    \cup {[tileIndex |-> t] : t \in 0..511 \cup {512, 4095, 4096, 65535}}

\* every uint16_t
ColorInputs == {[cgbColor |-> v] : v \in 0..65535}

\* callers' CGBPalette arrays of eight palettes, and nullptr
CGBPaletteArray(k) ==
    [null |-> FALSE,
     at |-> [i \in 0..7 |->
                [colors |-> [c \in 0..3 |->
                    IF k = 0 THEN (((i * 4) + c + 1) * 2113) % 65536
                    ELSE 65535 - ((((i * 4) + c) * 977) % 65536)]]]]

PaletteArrays == {[null |-> TRUE], CGBPaletteArray(0), CGBPaletteArray(1)}
BGPaletteArrays == {[null |-> TRUE], CGBPaletteArray(0)}
SpritePaletteArrays == {[null |-> TRUE], CGBPaletteArray(1)}

\* counts below, inside and above the eight slots
PaletteCounts == {-1, 2, 8, 9}

\* int index arguments: negative, inside and above 0..7
PaletteIndices == {-1, 3, 8}

\* (rows, cols) of a pool: the 24 x 16 tile grid, a 16 x 12 grid and an
\* empty one; the scales 2 and 3
PoolDims == {<<0, 5>>, <<16, 12>>, <<24, 16>>}
PoolScales == {2, 3}

\* (row, col) asked of GetTexture: inside, on and past the edges
PoolQueries ==
    {<<-1, 0>>, <<0, -1>>, <<1, -1>>, <<0, 0>>, <<1, 2>>, <<15, 11>>, <<15, 12>>,
     <<16, 0>>, <<23, 15>>, <<24, 0>>, <<0, 16>>}

ExtPtrs == 0..MaxExtPtr

CacheTiles == 0..MaxCacheTile

\* the vectors handed to UpdateTiles
TileVectors == {<<t>> : t \in CacheTiles} \cup {<<t, u>> : t, u \in CacheTiles}

NoUI == [combo |-> "none", click |-> -1, inspectorOpen |-> FALSE, clear |-> FALSE,
         spriteOpen |-> FALSE, toggle8x16 |-> FALSE]

\* a frame in which only the source selector is used
SelectorUI ==
    {[NoUI EXCEPT !.combo = c] : c \in {"none", "MappedMemory", "Bank0", "Bank1"}}

\* a frame in which tiles are clicked and the two headers are used
ViewUI ==
    [combo : {"none"}, click : {-1, 0, 383}, inspectorOpen : BOOLEAN,
     clear : BOOLEAN, spriteOpen : BOOLEAN, toggle8x16 : BOOLEAN]

\* bank counts around the limits of SetROMBanks and SetRAMBanks
RomCounts == {0, 2, 512, 513}
RamCounts == {0, 16, 17}
RamBankSizes == {16}

\* the caller's bank lookups: bank 1 is missing (nullptr)
RomBankFuncs == {[i \in 0..(ROM_BANKS - 1) |-> IF i = 1 THEN 0 ELSE 1 + (i % 2)]}
RamBankFuncs == {[i \in 0..(RAM_BANKS - 1) |-> IF i = 1 THEN 0 ELSE 1 + (i % 2)]}

\* the regions of MEMORY_REGIONS that are expanded in the memory viewer
RomBank0Region == [start |-> 0, end |-> 16383]
RomBankNRegion == [start |-> 16384, end |-> 32767]
VramRegion == [start |-> 32768, end |-> 40959]
ExternalRamRegion == [start |-> 40960, end |-> 49151]

BankPicks ==
    {[item |-> "none", bank |-> 0], [item |-> "MappedMemory", bank |-> 0]}
    \cup {[item |-> "Bank", bank |-> b] : b \in {1, 15}}

\* a frame of the memory viewer: at most one region header is expanded
MemoryUI ==
    {[open |-> <<>>, pick |-> [item |-> "none", bank |-> 0]]}
    \cup {[open |-> <<r>>, pick |-> k] :
             r \in {RomBankNRegion, VramRegion, ExternalRamRegion}, k \in BankPicks}
    \cup {[open |-> <<RomBank0Region>>, pick |-> [item |-> "none", bank |-> 0]]}

\* no const member function has been called
NoCall == [fn |-> "none"]

(***************************************************************************)
(* Operations                                                              *)
(***************************************************************************)
Init ==
    /\ is_open_ = FALSE
    /\ backend_ = DebuggerBackend_new
    /\ bankData_ = BankData_new
    /\ memory_panel_ = MemoryViewerPanel_new
    /\ vram_panel_ = VRAMViewerPanel_new
    /\ lastCall = [op |-> "new"]
    /\ callerPtrs = [granted |-> {}, revoked |-> {}]
    /\ parseIn = [oam |-> NullPtr, size |-> 0]
    /\ parseOut = [done |-> FALSE, sprites |-> <<>>]
    /\ gl = GL_new
    /\ texturePool = TexturePool_new
    /\ paletteManager = PaletteManager_new
    /\ callIn = NoCall
    /\ callOut = NoCall

\* backend_->Initialize succeeds or fails
GBDebugger_Open ==
    \E initialized \in BOOLEAN :
        LET r == Open(is_open_, backend_, initialized) IN
        /\ is_open_' = r.is_open_
        /\ backend_' = r.backend_
        /\ lastCall' = [op |-> "Open", ret |-> r.ret, backend |-> r.call,
                        prev |-> backend_.last]
        /\ UNCHANGED <<bankData_, memory_panel_, vram_panel_, callerPtrs, parseIn, parseOut, gl,
                   standalone>>

GBDebugger_Close ==
    LET r == Close(is_open_, backend_) IN
    /\ is_open_' = r.is_open_
    /\ backend_' = r.backend_
    /\ lastCall' = [op |-> "Close", backend |-> r.call, prev |-> backend_.last]
    /\ UNCHANGED <<bankData_, memory_panel_, vram_panel_, callerPtrs, parseIn, parseOut, gl,
                   standalone>>

GBDebugger_UpdateMemory ==
    \E in \in UpdateMemoryInputs :
        LET r == UpdateMemory(memory_panel_, vram_panel_, in.buffer, in.size) IN
        /\ memory_panel_' = r.memory_panel_
        /\ vram_panel_' = r.vram_panel_
        /\ lastCall' = [op |-> "UpdateMemory", buffer |-> in.buffer, size |-> in.size,
                        modeBefore |-> vram_panel_.state_.mode, ret |-> r.ret]
        /\ UNCHANGED <<is_open_, backend_, bankData_, callerPtrs, parseIn, parseOut, gl, standalone>>

\* the caller's view of the pointers after handing over bank0 and bank1
Handover(bank0, bank1) ==
    [granted |-> {bank0, bank1} \ {0},
     revoked |-> (callerPtrs.revoked \cup callerPtrs.granted) \ {bank0, bank1}]

SetVRAMBankWith(banks, ptrs) ==
    \E bank \in banks, data \in ptrs :
        LET r == SetVRAMBank(bankData_, memory_panel_, vram_panel_, bank, data) IN
        /\ bankData_' = r.bankData_
        /\ memory_panel_' = r.memory_panel_
        /\ vram_panel_' = r.vram_panel_
        /\ lastCall' = [op |-> "SetVRAMBank", bank |-> bank, data |-> data, ret |-> r.ret]
        /\ callerPtrs' = IF r.ret
                         THEN Handover(r.bankData_.vramBanks[1], r.bankData_.vramBanks[2])
                         ELSE callerPtrs
        /\ UNCHANGED <<is_open_, backend_, parseIn, parseOut, gl, standalone>>

GBDebugger_SetVRAMBank == SetVRAMBankWith({0, 1, 2}, ExtPtrs)

\* the caller has a single image to offer, for VRAM bank 1
GBDebugger_SetVRAMBank_bank1 == SetVRAMBankWith({1, 2}, {0, 1})

GBDebugger_SetROMBanks ==
    \E count \in RomCounts, getBankFunc \in RomBankFuncs :
        LET r == SetROMBanks(bankData_, memory_panel_, count, getBankFunc) IN
        /\ bankData_' = r.bankData_
        /\ memory_panel_' = r.memory_panel_
        /\ lastCall' = [op |-> "SetROMBanks", count |-> count, getBankFunc |-> getBankFunc,
                        calls |-> r.calls, ret |-> r.ret]
        /\ UNCHANGED <<is_open_, backend_, vram_panel_, callerPtrs, parseIn, parseOut, gl,
                       standalone>>

GBDebugger_SetRAMBanks ==
    \E count \in RamCounts, bankSize \in RamBankSizes, getBankFunc \in RamBankFuncs :
        LET r == SetRAMBanks(bankData_, memory_panel_, count, bankSize, getBankFunc) IN
        /\ bankData_' = r.bankData_
        /\ memory_panel_' = r.memory_panel_
        /\ lastCall' = [op |-> "SetRAMBanks", count |-> count, bankSize |-> bankSize,
                        getBankFunc |-> getBankFunc, calls |-> r.calls, ret |-> r.ret]
        /\ UNCHANGED <<is_open_, backend_, vram_panel_, callerPtrs, parseIn, parseOut, gl,
                       standalone>>

\* reads: the bytes the frame displayed
MemoryViewerPanel_Render ==
    \E ui \in MemoryUI :
        LET r == RenderMemoryViewer(memory_panel_, bankData_, ui) IN
        /\ memory_panel_' = r.self
        /\ lastCall' = [op |-> "RenderMemory", reads |-> r.reads]
        /\ UNCHANGED <<is_open_, backend_, bankData_, vram_panel_, callerPtrs, parseIn,
                       parseOut, gl, standalone>>

GBDebugger_ClearBankData ==
    LET r == ClearBankData(bankData_, memory_panel_, vram_panel_) IN
    /\ bankData_' = r.bankData_
    /\ memory_panel_' = r.memory_panel_
    /\ vram_panel_' = r.vram_panel_
    /\ lastCall' = [op |-> "ClearBankData"]
    /\ callerPtrs' = Handover(0, 0)
    /\ UNCHANGED <<is_open_, backend_, parseIn, parseOut, gl, standalone>>

VRAMViewerPanel_UpdateVRAM ==
    \E in \in UpdateVRAMInputs, bank \in BankInputs :
        LET r == UpdateVRAM(vram_panel_, in.buffer, in.size, bank) IN
        /\ vram_panel_' = r.self
        /\ lastCall' = [op |-> "UpdateVRAM", buffer |-> in.buffer, size |-> in.size,
                        bank |-> bank, ret |-> r.ret]
        /\ UNCHANGED <<is_open_, backend_, bankData_, memory_panel_, callerPtrs, parseIn, parseOut, gl,
                       standalone>>

VRAMViewerPanel_UpdateOAM ==
    \E in \in UpdateOAMInputs :
        LET r == UpdateOAM(vram_panel_, in.buffer, in.size) IN
        /\ vram_panel_' = r.self
        /\ lastCall' = [op |-> "UpdateOAM", buffer |-> in.buffer, size |-> in.size,
                        ret |-> r.ret]
        /\ UNCHANGED <<is_open_, backend_, bankData_, memory_panel_, callerPtrs, parseIn, parseOut, gl,
                       standalone>>

VRAMViewerPanel_UpdatePalettes ==
    \E bgPalettes \in PaletteArrays, spritePalettes \in PaletteArrays :
        LET r == UpdatePalettes(vram_panel_, bgPalettes, spritePalettes) IN
        /\ vram_panel_' = r.self
        /\ lastCall' = [op |-> "UpdatePalettes", bgPalettes |-> bgPalettes,
                        spritePalettes |-> spritePalettes, ret |-> r.ret]
        /\ UNCHANGED <<is_open_, backend_, bankData_, memory_panel_, callerPtrs, parseIn, parseOut, gl,
                       standalone>>

\* hadClean: some cached tile was clean when the call was made
VRAMViewerPanel_SetEmulationMode ==
    \E mode \in {"DMG", "CGB"} :
        /\ vram_panel_' = SetEmulationMode(vram_panel_, mode)
        /\ lastCall' = [op |-> "SetEmulationMode", mode |-> mode,
                        modeBefore |-> vram_panel_.state_.mode,
                        hadClean |-> \E i \in DOMAIN vram_panel_.renderer_.dirtyFlags_ :
                                        ~IsTileDirty(vram_panel_.renderer_, i)]
        /\ UNCHANGED <<is_open_, backend_, bankData_, memory_panel_, callerPtrs, parseIn, parseOut, gl,
                       standalone>>

SetVRAMBankDataWith(ptrs) ==
    \E bank0 \in ptrs, bank1 \in ptrs :
        /\ vram_panel_' = SetVRAMBankData(vram_panel_, bank0, bank1)
        /\ lastCall' = [op |-> "SetVRAMBankData", bank0 |-> bank0, bank1 |-> bank1,
                        sourceBefore |-> vram_panel_.vramSource_]
        /\ callerPtrs' = Handover(bank0, bank1)
        /\ UNCHANGED <<is_open_, backend_, bankData_, memory_panel_, parseIn, parseOut, gl, standalone>>

VRAMViewerPanel_SetVRAMBankData == SetVRAMBankDataWith(ExtPtrs)

\* the caller has a single bank image to offer
VRAMViewerPanel_SetVRAMBankData_single == SetVRAMBankDataWith({0, 1})

\* vramBuffer: what GetVRAMData returned to the tile grid
RenderWith(uis) ==
    \E ui \in uis :
        LET r == Render(vram_panel_, ui, gl) IN
        /\ vram_panel_' = r.self
        /\ gl' = r.gl
        /\ lastCall' = [op |-> "Render", drawn |-> vram_panel_.visible_,
                        combo |-> ui.combo, vramBuffer |-> r.vramBuffer]
        /\ UNCHANGED <<is_open_, backend_, bankData_, memory_panel_, callerPtrs, parseIn, parseOut,
                       standalone>>

\* a frame without user input
VRAMViewerPanel_Render_idle == RenderWith({NoUI})

\* a frame in which the source selector may be used
VRAMViewerPanel_Render_selector == RenderWith(SelectorUI)

\* a frame in which the tile grid and the two headers may be used
VRAMViewerPanel_Render_views == RenderWith(ViewUI)

VRAMViewerPanel_SetVisible ==
    \E visible \in BOOLEAN :
        /\ vram_panel_' = SetVisible(vram_panel_, visible)
        /\ lastCall' = [op |-> "SetVisible", visible |-> visible]
        /\ UNCHANGED <<is_open_, backend_, bankData_, memory_panel_, callerPtrs, parseIn, parseOut, gl,
                       standalone>>

\* made: for each element of the vector, whether glGenTextures produces a
\* texture for it
TileRenderer_UpdateTiles ==
    \E tiles \in TileVectors :
        \E made \in [1..Len(tiles) -> BOOLEAN] :
            LET u == UpdateTiles(vram_panel_.renderer_, tiles, made, gl) IN
            /\ vram_panel_' = [vram_panel_ EXCEPT !.renderer_ = u.self]
            /\ gl' = u.gl
            /\ lastCall' = [op |-> "UpdateTiles", tiles |-> tiles]
            /\ UNCHANGED <<is_open_, backend_, bankData_, memory_panel_, callerPtrs, parseIn, parseOut,
                           standalone>>

TileRenderer_MarkTileDirty ==
    \E tileIndex \in CacheTiles :
        /\ vram_panel_' = [vram_panel_ EXCEPT
                             !.renderer_ = MarkTileDirty(vram_panel_.renderer_, tileIndex)]
        /\ lastCall' = [op |-> "MarkTileDirty", tileIndex |-> tileIndex]
        /\ UNCHANGED <<is_open_, backend_, bankData_, memory_panel_, callerPtrs, parseIn, parseOut, gl,
                       standalone>>

TileRenderer_MarkAllDirty ==
    /\ vram_panel_' = [vram_panel_ EXCEPT !.renderer_ = MarkAllDirty(vram_panel_.renderer_)]
    /\ lastCall' = [op |-> "MarkAllDirty"]
    /\ UNCHANGED <<is_open_, backend_, bankData_, memory_panel_, callerPtrs, parseIn, parseOut, gl,
                   standalone>>

\* taken while the context has deleted at most MaxDeleted names
TileRenderer_ClearTextures ==
    LET c == ClearTextures(vram_panel_.renderer_, gl) IN
    /\ (gl.next - 1) - Cardinality(gl.live) <= MaxDeleted
    /\ vram_panel_' = [vram_panel_ EXCEPT !.renderer_ = c.self]
    /\ gl' = c.gl
    /\ lastCall' = [op |-> "ClearTextures"]
    /\ UNCHANGED <<is_open_, backend_, bankData_, memory_panel_, callerPtrs, parseIn, parseOut,
                   standalone>>

SpriteParser_ParseOAM ==
    /\ ~parseOut.done
    /\ parseOut' = [done |-> TRUE, sprites |-> ParseOAM(parseIn.oam, parseIn.size)]
    /\ lastCall' = [op |-> "ParseOAM"]
    /\ UNCHANGED <<is_open_, backend_, bankData_, memory_panel_, vram_panel_, callerPtrs, parseIn, gl,
                 standalone>>

SpriteParser_ParseSprite ==
    /\ callOut.fn = "none"
    /\ "entry" \in DOMAIN callIn
    /\ callOut' = [fn |-> "ParseSprite", sprite |-> ParseSprite(callIn.entry)]
    /\ lastCall' = [op |-> "ParseSprite"]
    /\ UNCHANGED <<is_open_, backend_, bankData_, memory_panel_, vram_panel_, callerPtrs, parseIn,
                   parseOut, gl, texturePool, paletteManager, callIn>>

\* on the sprite ParseSprite returned
SpriteParser_IsSpriteVisible ==
    /\ callOut.fn = "ParseSprite"
    /\ callOut' = [fn |-> "IsSpriteVisible", sprite |-> callOut.sprite,
                   ret |-> IsSpriteVisible(callOut.sprite)]
    /\ lastCall' = [op |-> "IsSpriteVisible"]
    /\ UNCHANGED <<is_open_, backend_, bankData_, memory_panel_, vram_panel_, callerPtrs, parseIn,
                   parseOut, gl, texturePool, paletteManager, callIn>>

TileDecoder_DecodeTile ==
    /\ callOut.fn = "none"
    /\ "vram" \in DOMAIN callIn
    /\ callOut' = [fn |-> "DecodeTile",
                   pixelData |-> DecodeTile_pixelData(callIn.vram, callIn.tileIndex, callIn.bank)]
    /\ lastCall' = [op |-> "DecodeTile"]
    /\ UNCHANGED <<is_open_, backend_, bankData_, memory_panel_, vram_panel_, callerPtrs, parseIn,
                   parseOut, gl, texturePool, paletteManager, callIn>>

TileDecoder_GetTileAddress ==
    /\ callOut.fn = "none"
    /\ DOMAIN callIn = {"tileIndex"}
    /\ callOut' = [fn |-> "GetTileAddress", ret |-> GetTileAddress(callIn.tileIndex)]
    /\ lastCall' = [op |-> "GetTileAddress"]
    /\ UNCHANGED <<is_open_, backend_, bankData_, memory_panel_, vram_panel_, callerPtrs, parseIn,
                   parseOut, gl, texturePool, paletteManager, callIn>>

PaletteManager_ConvertCGBColor ==
    /\ callOut.fn = "none"
    /\ "cgbColor" \in DOMAIN callIn
    /\ callOut' = [fn |-> "ConvertCGBColor", ret |-> ConvertCGBColor(callIn.cgbColor)]
    /\ lastCall' = [op |-> "ConvertCGBColor"]
    /\ UNCHANGED <<is_open_, backend_, bankData_, memory_panel_, vram_panel_, callerPtrs, parseIn,
                   parseOut, gl, texturePool, paletteManager, callIn>>

PaletteManager_SetMode ==
    \E mode \in {"DMG", "CGB"} :
        /\ paletteManager' = SetMode(paletteManager, mode)
        /\ lastCall' = [op |-> "SetMode", mode |-> mode]
    /\ UNCHANGED <<is_open_, backend_, bankData_, memory_panel_, vram_panel_, callerPtrs, parseIn,
                   parseOut, gl, texturePool, callIn, callOut>>

PaletteManager_SetBGPalettes ==
    \E palettes \in BGPaletteArrays, count \in PaletteCounts :
        /\ paletteManager' = SetBGPalettes(paletteManager, palettes, count)
        /\ lastCall' = [op |-> "SetBGPalettes", palettes |-> palettes, count |-> count]
    /\ UNCHANGED <<is_open_, backend_, bankData_, memory_panel_, vram_panel_, callerPtrs, parseIn,
                   parseOut, gl, texturePool, callIn, callOut>>

PaletteManager_SetSpritePalettes ==
    \E palettes \in SpritePaletteArrays, count \in PaletteCounts :
        /\ paletteManager' = SetSpritePalettes(paletteManager, palettes, count)
        /\ lastCall' = [op |-> "SetSpritePalettes", palettes |-> palettes, count |-> count]
    /\ UNCHANGED <<is_open_, backend_, bankData_, memory_panel_, vram_panel_, callerPtrs, parseIn,
                   parseOut, gl, texturePool, callIn, callOut>>

PaletteManager_GetBGPalette ==
    \E index \in PaletteIndices :
        /\ lastCall' = [op |-> "GetBGPalette", index |-> index,
                        ret |-> GetBGPalette(paletteManager, index)]
        /\ UNCHANGED <<is_open_, backend_, bankData_, memory_panel_, vram_panel_, callerPtrs, parseIn,
                       parseOut, gl, standalone>>

PaletteManager_GetSpritePalette ==
    \E index \in PaletteIndices :
        /\ lastCall' = [op |-> "GetSpritePalette", index |-> index,
                        ret |-> GetSpritePalette(paletteManager, index)]
        /\ UNCHANGED <<is_open_, backend_, bankData_, memory_panel_, vram_panel_, callerPtrs, parseIn,
                       parseOut, gl, standalone>>

PaletteManager_SetSelectedBGPalette ==
    \E index \in PaletteIndices :
        /\ paletteManager' = SetSelectedBGPalette(paletteManager, index)
        /\ lastCall' = [op |-> "SetSelectedBGPalette", index |-> index]
    /\ UNCHANGED <<is_open_, backend_, bankData_, memory_panel_, vram_panel_, callerPtrs, parseIn,
                   parseOut, gl, texturePool, callIn, callOut>>

PaletteManager_SetSelectedSpritePalette ==
    \E index \in PaletteIndices :
        /\ paletteManager' = SetSelectedSpritePalette(paletteManager, index)
        /\ lastCall' = [op |-> "SetSelectedSpritePalette", index |-> index]
    /\ UNCHANGED <<is_open_, backend_, bankData_, memory_panel_, vram_panel_, callerPtrs, parseIn,
                   parseOut, gl, texturePool, callIn, callOut>>

TexturePool_Initialize ==
    \E d \in PoolDims, scale \in PoolScales :
        LET i == Initialize(texturePool, d[1], d[2], scale, gl) IN
        /\ gl.next + (d[1] * d[2]) - 1 <= MaxGLNames
        /\ texturePool' = i.self
        /\ gl' = i.gl
        /\ lastCall' = [op |-> "Initialize", rows |-> d[1], cols |-> d[2], scale |-> scale,
                        generated |-> i.generated, deleted |-> i.deleted]
        /\ callOut' = NoCall
        /\ UNCHANGED <<is_open_, backend_, bankData_, memory_panel_, vram_panel_, callerPtrs, parseIn,
                       parseOut, paletteManager, callIn>>

TexturePool_ReinitializeIfNeeded ==
    \E d \in PoolDims, scale \in PoolScales :
        LET i == ReinitializeIfNeeded(texturePool, d[1], d[2], scale, gl) IN
        /\ gl.next + (d[1] * d[2]) - 1 <= MaxGLNames
        /\ texturePool' = i.self
        /\ gl' = i.gl
        /\ lastCall' = [op |-> "ReinitializeIfNeeded", rows |-> d[1], cols |-> d[2],
                        scale |-> scale, generated |-> i.generated, deleted |-> i.deleted,
                        ret |-> i.ret]
        /\ callOut' = NoCall
        /\ UNCHANGED <<is_open_, backend_, bankData_, memory_panel_, vram_panel_, callerPtrs, parseIn,
                       parseOut, paletteManager, callIn>>

TexturePool_Clear ==
    LET c == Clear(texturePool, gl) IN
    /\ texturePool' = c.self
    /\ gl' = c.gl
    /\ lastCall' = [op |-> "Clear", deleted |-> c.deleted]
    /\ callOut' = NoCall
    /\ UNCHANGED <<is_open_, backend_, bankData_, memory_panel_, vram_panel_, callerPtrs, parseIn,
                   parseOut, paletteManager, callIn>>

TexturePool_GetTexture ==
    \E q \in PoolQueries :
        /\ callOut' = [fn |-> "GetTexture", row |-> q[1], col |-> q[2],
                       ret |-> GetTexture(texturePool, q[1], q[2]),
                       IsInitialized |-> texturePool.initialized_]
        /\ lastCall' = [op |-> "GetTexture"]
        /\ UNCHANGED <<is_open_, backend_, bankData_, memory_panel_, vram_panel_, callerPtrs, parseIn,
                       parseOut, gl, texturePool, paletteManager, callIn>>

(***************************************************************************)
(* Spec: the source selection and the dirty cache of the VRAM viewer       *)
(***************************************************************************)
Next ==
    \/ VRAMViewerPanel_SetVRAMBankData_single
    \/ VRAMViewerPanel_SetEmulationMode
    \/ VRAMViewerPanel_Render_selector
    \/ TileRenderer_UpdateTiles
    \/ TileRenderer_MarkTileDirty

Spec == Init /\ [][Next]_vars

(***************************************************************************)
(* SpecMode: mode switches over the legacy tile cache                      *)
(***************************************************************************)
NextMode ==
    \/ VRAMViewerPanel_SetEmulationMode
    \/ VRAMViewerPanel_Render_idle
    \/ TileRenderer_UpdateTiles
    \/ TileRenderer_MarkTileDirty

SpecMode == Init /\ [][NextMode]_vars

(***************************************************************************)
(* SpecDirty: the legacy tile cache of the TileRenderer and its dirty flags *)
(***************************************************************************)
NextDirty ==
    \/ TileRenderer_UpdateTiles
    \/ TileRenderer_MarkTileDirty
    \/ TileRenderer_MarkAllDirty
    \/ TileRenderer_ClearTextures

SpecDirty == Init /\ [][NextDirty]_vars

(***************************************************************************)
(* SpecUpdate: palette and OAM updates of the VRAM panel between frames    *)
(***************************************************************************)
NextUpdate ==
    \/ VRAMViewerPanel_UpdatePalettes
    \/ VRAMViewerPanel_UpdateOAM
    \/ VRAMViewerPanel_Render_idle

SpecUpdate == Init /\ [][NextUpdate]_vars

(***************************************************************************)
(* SpecSource: external bank pointers through the facade and the panel     *)
(***************************************************************************)
NextSource ==
    \/ GBDebugger_SetVRAMBank
    \/ GBDebugger_ClearBankData
    \/ VRAMViewerPanel_SetVRAMBankData
    \/ VRAMViewerPanel_Render_selector

SpecSource == Init /\ [][NextSource]_vars

(***************************************************************************)
(* SpecVRAM: VRAM bank updates                                             *)
(***************************************************************************)
NextVRAM ==
    \/ VRAMViewerPanel_UpdateVRAM
    \/ VRAMViewerPanel_SetEmulationMode
    \/ VRAMViewerPanel_Render_idle

SpecVRAM == Init /\ [][NextVRAM]_vars

(***************************************************************************)
(* SpecMemory: the 64KB memory update of the facade                        *)
(***************************************************************************)
NextMemory ==
    \/ GBDebugger_Open
    \/ GBDebugger_Close
    \/ GBDebugger_UpdateMemory
    \/ VRAMViewerPanel_SetEmulationMode
    \/ VRAMViewerPanel_UpdateOAM

SpecMemory == Init /\ [][NextMemory]_vars

(***************************************************************************)
(* SpecRender: the views of the render pass                                *)
(***************************************************************************)
NextRender ==
    \/ VRAMViewerPanel_Render_views
    \/ VRAMViewerPanel_SetVisible
    \/ VRAMViewerPanel_SetEmulationMode
    \/ VRAMViewerPanel_UpdateOAM

SpecRender == Init /\ [][NextRender]_vars

(***************************************************************************)
(* SpecOAM: SpriteParser::ParseOAM on the argument drawn at the start      *)
(***************************************************************************)
InitOAM ==
    /\ is_open_ = FALSE
    /\ backend_ = DebuggerBackend_new
    /\ bankData_ = BankData_new
    /\ memory_panel_ = MemoryViewerPanel_new
    /\ vram_panel_ = VRAMViewerPanel_new
    /\ lastCall = [op |-> "new"]
    /\ callerPtrs = [granted |-> {}, revoked |-> {}]
    /\ parseIn \in ParseInputs
    /\ parseOut = [done |-> FALSE, sprites |-> <<>>]
    /\ gl = GL_new
    /\ texturePool = TexturePool_new
    /\ paletteManager = PaletteManager_new
    /\ callIn = NoCall
    /\ callOut = NoCall

NextOAM == SpriteParser_ParseOAM

SpecOAM == InitOAM /\ [][NextOAM]_vars

\* the state after construction, with the arguments of the calls to come
InitCall(inputs) ==
    /\ is_open_ = FALSE
    /\ backend_ = DebuggerBackend_new
    /\ bankData_ = BankData_new
    /\ memory_panel_ = MemoryViewerPanel_new
    /\ vram_panel_ = VRAMViewerPanel_new
    /\ lastCall = [op |-> "new"]
    /\ callerPtrs = [granted |-> {}, revoked |-> {}]
    /\ parseIn = [oam |-> NullPtr, size |-> 0]
    /\ parseOut = [done |-> FALSE, sprites |-> <<>>]
    /\ gl = GL_new
    /\ texturePool = TexturePool_new
    /\ paletteManager = PaletteManager_new
    /\ callIn \in inputs
    /\ callOut = NoCall

(***************************************************************************)
(* SpecSprite: SpriteParser::ParseSprite and IsSpriteVisible on one entry  *)
(***************************************************************************)
InitSprite == InitCall(SpriteInputs)

NextSprite ==
    \/ SpriteParser_ParseSprite
    \/ SpriteParser_IsSpriteVisible

SpecSprite == InitSprite /\ [][NextSprite]_vars

(***************************************************************************)
(* SpecTile: TileDecoder::DecodeTile and GetTileAddress on one tile        *)
(***************************************************************************)
InitTile == InitCall(TileInputs)

NextTile ==
    \/ TileDecoder_DecodeTile
    \/ TileDecoder_GetTileAddress

SpecTile == InitTile /\ [][NextTile]_vars

(***************************************************************************)
(* SpecColor: PaletteManager::ConvertCGBColor on one colour                *)
(***************************************************************************)
InitColor == InitCall(ColorInputs)

NextColor == PaletteManager_ConvertCGBColor

SpecColor == InitColor /\ [][NextColor]_vars

(***************************************************************************)
(* SpecPalette: a PaletteManager and the calls of its public interface     *)
(***************************************************************************)
NextPalette ==
    \/ PaletteManager_SetMode
    \/ PaletteManager_SetBGPalettes
    \/ PaletteManager_SetSpritePalettes
    \/ PaletteManager_GetBGPalette
    \/ PaletteManager_GetSpritePalette
    \/ PaletteManager_SetSelectedBGPalette
    \/ PaletteManager_SetSelectedSpritePalette

SpecPalette == Init /\ [][NextPalette]_vars

(***************************************************************************)
(* SpecPool: a TexturePool and the calls of its public interface           *)
(***************************************************************************)
NextPool ==
    \/ TexturePool_Initialize
    \/ TexturePool_ReinitializeIfNeeded
    \/ TexturePool_Clear
    \/ TexturePool_GetTexture

SpecPool == Init /\ [][NextPool]_vars

(***************************************************************************)
(* Properties                                                              *)
(***************************************************************************)
\* a holds exactly the first n bytes at p, compared offset by offset
SameBytes(a, p, n) ==
    /\ a.len = n
    /\ a.fill = p.fill
    /\ \A i \in DOMAIN a.at \cup {k \in DOMAIN p.at : k < n} : ByteAt(a, i) = ByteAt(p, i)

AllTileIndices == 0..(TILE_COUNT - 1)

\* C1: an UpdateVRAM call with a null buffer, a size other than 8192 or a
\* bank above 1 returns false and leaves vramBank0_, vramBank1_, the mode,
\* currentBank and needsRefresh as they were.
C1_UpdateVRAMRejects ==
    [][(/\ lastCall'.op = "UpdateVRAM"
        /\ (lastCall'.buffer.null \/ lastCall'.size /= 8192 \/ lastCall'.bank > 1))
       => /\ lastCall'.ret = FALSE
          /\ vram_panel_'.vramBank0_ = vram_panel_.vramBank0_
          /\ vram_panel_'.vramBank1_ = vram_panel_.vramBank1_
          /\ vram_panel_'.state_.mode = vram_panel_.state_.mode
          /\ vram_panel_'.state_.currentBank = vram_panel_.state_.currentBank
          /\ vram_panel_'.state_.needsRefresh = vram_panel_.state_.needsRefresh]_vars

\* an 8193-byte buffer was rejected in CGB mode with both banks filled and
\* no refresh pending
C1_Witness ==
    /\ lastCall.op = "UpdateVRAM"
    /\ lastCall.size = 8193
    /\ ~lastCall.buffer.null
    /\ lastCall.bank = 0
    /\ lastCall.ret = FALSE
    /\ vram_panel_.state_.mode = "CGB"
    /\ vram_panel_.vramBank0_ = VramA
    /\ vram_panel_.vramBank1_ = VramB
    /\ ~vram_panel_.state_.needsRefresh

\* C2: an UpdateVRAM call with a non-null 8192-byte buffer returns true;
\* with bank 0 it overwrites exactly vramBank0_, with bank 1 in CGB mode
\* exactly vramBank1_, and with bank 1 in DMG mode neither bank.
C2_UpdateVRAMBankEffect ==
    [][(/\ lastCall'.op = "UpdateVRAM"
        /\ ~lastCall'.buffer.null
        /\ lastCall'.size = 8192
        /\ lastCall'.bank \in {0, 1})
       => /\ lastCall'.ret = TRUE
          /\ IF lastCall'.bank = 0
             THEN /\ SameBytes(vram_panel_'.vramBank0_, lastCall'.buffer, 8192)
                  /\ vram_panel_'.vramBank1_ = vram_panel_.vramBank1_
             ELSE IF vram_panel_.state_.mode = "DMG"
             THEN /\ vram_panel_'.vramBank0_ = vram_panel_.vramBank0_
                  /\ vram_panel_'.vramBank1_ = vram_panel_.vramBank1_
             ELSE /\ SameBytes(vram_panel_'.vramBank1_, lastCall'.buffer, 8192)
                  /\ vram_panel_'.vramBank0_ = vram_panel_.vramBank0_]_vars

\* a bank-1 write of image B was accepted in DMG mode while bank 1 keeps
\* image A, written earlier in CGB mode
C2_Witness ==
    /\ lastCall.op = "UpdateVRAM"
    /\ lastCall.bank = 1
    /\ lastCall.size = 8192
    /\ lastCall.buffer = PtrTo(VramB)
    /\ lastCall.ret = TRUE
    /\ vram_panel_.state_.mode = "DMG"
    /\ vram_panel_.vramBank1_ = VramA

\* C3: a SetEmulationMode call with a mode other than the current one
\* leaves currentBank 0, the PaletteManager in the new mode, and every tile
\* index dirty.
C3_ModeSwitchResets ==
    [][(/\ lastCall'.op = "SetEmulationMode"
        /\ lastCall'.mode /= vram_panel_.state_.mode)
       => /\ vram_panel_'.state_.mode = lastCall'.mode
          /\ vram_panel_'.state_.currentBank = 0
          /\ vram_panel_'.paletteManager_.mode_ = lastCall'.mode
          /\ \A i \in AllTileIndices \cup DOMAIN vram_panel_'.renderer_.dirtyFlags_ :
                IsTileDirty(vram_panel_'.renderer_, i)]_vars

\* the mode went from DMG to CGB while a cached tile was clean
C3_Witness ==
    /\ lastCall.op = "SetEmulationMode"
    /\ lastCall.modeBefore = "DMG"
    /\ lastCall.mode = "CGB"
    /\ lastCall.hadClean
    /\ vram_panel_.renderer_.tileTextures_ /= NoTiles

\* C4: after a successful UpdateMemory the VRAM panel is in CGB mode exactly
\* when byte 0x0143 of the buffer is 0x80 or 0xC0.
C4_ModeDetection ==
    (lastCall.op = "UpdateMemory" /\ lastCall.ret)
        => (vram_panel_.state_.mode = "CGB"
                <=> ByteAt(lastCall.buffer, 323) \in {128, 192})

\* a buffer with header byte 0x81 put a CGB-mode panel into DMG mode
C4_Witness ==
    /\ lastCall.op = "UpdateMemory"
    /\ lastCall.ret
    /\ lastCall.modeBefore = "CGB"
    /\ ByteAt(lastCall.buffer, 323) = 129
    /\ vram_panel_.state_.mode = "DMG"

\* C5: UpdateMemory returns true exactly for a non-null buffer of size
\* 65536, open or closed; when it returns false the memory copy, its
\* validity flag, the VRAM panel's mode, VRAM bank 0 and OAM are unchanged.
C5_UpdateMemoryResult ==
    [][lastCall'.op = "UpdateMemory"
       => /\ lastCall'.ret <=> (~lastCall'.buffer.null /\ lastCall'.size = 65536)
          /\ ~lastCall'.ret
                => /\ memory_panel_'.state_ = memory_panel_.state_
                   /\ vram_panel_'.state_.mode = vram_panel_.state_.mode
                   /\ vram_panel_'.vramBank0_ = vram_panel_.vramBank0_
                   /\ vram_panel_'.oam_ = vram_panel_.oam_]_vars

\* a 100000-byte update was refused while the debugger was open, in CGB
\* mode, with a valid memory copy and non-zero VRAM and OAM held
C5_Witness ==
    /\ lastCall.op = "UpdateMemory"
    /\ lastCall.size = 100000
    /\ ~lastCall.buffer.null
    /\ lastCall.ret = FALSE
    /\ is_open_
    /\ memory_panel_.state_.is_valid
    /\ vram_panel_.state_.mode = "CGB"
    /\ vram_panel_.vramBank0_ /= Zeroed(VRAM_BANK_SIZE)
    /\ vram_panel_.oam_ /= Zeroed(OAM_SIZE)

\* C6: once both external pointers are cleared the source is MappedMemory
\* and GetVRAMData returns the internal bank-0 buffer; the source leaves
\* MappedMemory only by a selection made while a pointer is set; and
\* GetVRAMData never returns a pointer the caller has replaced or cleared.
C6_NoRevokedPointer ==
    /\ [](/\ (lastCall.op = "SetVRAMBankData" /\ lastCall.bank0 = 0 /\ lastCall.bank1 = 0)
                => /\ vram_panel_.vramSource_ = "MappedMemory"
                   /\ GetVRAMData(vram_panel_) = InternalBank0
          /\ (vram_panel_.vramBank0External_ = 0 /\ vram_panel_.vramBank1External_ = 0)
                => /\ vram_panel_.vramSource_ = "MappedMemory"
                   /\ GetVRAMData(vram_panel_) = InternalBank0
          /\ GetVRAMData(vram_panel_).owner = "caller"
                => GetVRAMData(vram_panel_).ext \notin callerPtrs.revoked)
    /\ [][(vram_panel_.vramSource_ = "MappedMemory"
            /\ vram_panel_'.vramSource_ /= "MappedMemory")
          => /\ lastCall'.op = "Render"
             /\ lastCall'.combo = vram_panel_'.vramSource_
             /\ (vram_panel_'.vramBank0External_ /= 0
                    \/ vram_panel_'.vramBank1External_ /= 0)]_vars

\* both pointers were cleared while an external bank was the source and the
\* caller had already taken pointers back
C6_Witness ==
    /\ lastCall.op = "SetVRAMBankData"
    /\ lastCall.bank0 = 0
    /\ lastCall.bank1 = 0
    /\ lastCall.sourceBefore = "Bank1"
    /\ callerPtrs.revoked /= {}
    /\ vram_panel_.vramSource_ = "MappedMemory"

\* the buffer the resolution table of GetVRAMData gives for a panel
ResolvedBuffer(p) ==
    IF p.vramSource_ = "Bank0" /\ p.vramBank0External_ /= 0
    THEN External(p.vramBank0External_)
    ELSE IF p.vramSource_ = "Bank1" /\ p.vramBank1External_ /= 0
    THEN External(p.vramBank1External_)
    ELSE InternalBank0

\* C7: GetVRAMData returns the external bank-0 pointer for source Bank0
\* with that pointer set, the external bank-1 pointer for source Bank1 with
\* that pointer set, and the internal bank-0 buffer in every other case,
\* never the internal bank-1 buffer.
C7_GetVRAMDataResolution ==
    /\ GetVRAMData(vram_panel_) = ResolvedBuffer(vram_panel_)
    /\ GetVRAMData(vram_panel_) /= InternalBank1
    /\ (lastCall.op = "Render" /\ lastCall.drawn)
            => lastCall.vramBuffer = ResolvedBuffer(vram_panel_)

\* a frame was drawn with source Bank1 whose pointer is missing while the
\* bank-0 pointer is set: the grid decoded the internal bank-0 buffer
C7_Witness ==
    /\ lastCall.op = "Render"
    /\ lastCall.drawn
    /\ vram_panel_.vramSource_ = "Bank1"
    /\ vram_panel_.vramBank1External_ = 0
    /\ vram_panel_.vramBank0External_ /= 0
    /\ lastCall.vramBuffer = InternalBank0

ViewFrames == {RenderDecodes(vram_panel_, ui, gl) : ui \in ViewUI}

\* C9: every decode of every render pass possible in the current state
\* reads 16 bytes that lie inside the 8192-byte buffer.
C9_DecodesInsideBuffer ==
    \A f \in ViewFrames :
        \A d \in f :
            /\ d.last = d.first + 15
            /\ 0 <= d.first
            /\ d.last < 8192

\* C10: ParseOAM returns 40 entries, entry i made of bytes 4i..4i+3, for a
\* non-null buffer of size 160, and the empty list for a null buffer and
\* for every other size.
C10_ParseOAMFailsClosed ==
    parseOut.done
        => IF ~parseIn.oam.null /\ parseIn.size = 160
           THEN /\ Len(parseOut.sprites) = 40
                /\ \A i \in 0..39 :
                      /\ parseOut.sprites[i + 1].y = ByteAt(parseIn.oam, 4 * i)
                      /\ parseOut.sprites[i + 1].x = ByteAt(parseIn.oam, 4 * i + 1)
                      /\ parseOut.sprites[i + 1].tileIndex = ByteAt(parseIn.oam, 4 * i + 2)
                      /\ parseOut.sprites[i + 1].flags = ByteAt(parseIn.oam, 4 * i + 3)
           ELSE parseOut.sprites = <<>>

\* byte k of the entry handed to ParseSprite
EntryByte(k) == ByteAt(callIn.entry, k)

\* C11: IsSpriteVisible returns true exactly for the sprites with
\* 0 < y < 160 and 0 < x < 168, whatever the tile index and flags.
C11_VisibleIffInsideBounds ==
    callOut.fn = "IsSpriteVisible"
        => (callOut.ret <=> (/\ 0 < EntryByte(0) /\ EntryByte(0) < 160
                             /\ 0 < EntryByte(1) /\ EntryByte(1) < 168))

\* the sprite at y = 159, x = 167 with every flag bit set was found visible
C11_Witness ==
    /\ callOut.fn = "IsSpriteVisible"
    /\ callOut.ret = TRUE
    /\ EntryByte(0) = 159
    /\ EntryByte(1) = 167
    /\ EntryByte(2) = 255
    /\ EntryByte(3) = 255

\* C12: ParseSprite copies the four bytes into y, x, tileIndex and flags,
\* takes priority, yFlip, xFlip, paletteNumber and vramBank from bits 7, 6,
\* 5, 4 and 3 of the flag byte, so that bits 0-2 reach no field but flags;
\* the entry {46, 28, 1, 0x00} is visible.
C12_ParseSpriteFields ==
    /\ (callOut.fn = "ParseSprite" /\ ~callIn.entry.null)
            => /\ callOut.sprite.y = EntryByte(0)
               /\ callOut.sprite.x = EntryByte(1)
               /\ callOut.sprite.tileIndex = EntryByte(2)
               /\ callOut.sprite.flags = EntryByte(3)
               /\ callOut.sprite.priority = (EntryByte(3) >= 128)
               /\ callOut.sprite.yFlip = (EntryByte(3) % 128 >= 64)
               /\ callOut.sprite.xFlip = (EntryByte(3) % 64 >= 32)
               /\ callOut.sprite.paletteNumber = (IF EntryByte(3) % 32 >= 16 THEN 1 ELSE 0)
               /\ callOut.sprite.vramBank = (IF EntryByte(3) % 16 >= 8 THEN 1 ELSE 0)
    /\ (callOut.fn = "IsSpriteVisible" /\ callIn.entry = PtrTo(OamEntry(46, 28, 1, 0)))
            => /\ callOut.ret = TRUE
               /\ callOut.sprite.y = 46 /\ callOut.sprite.x = 28
               /\ callOut.sprite.tileIndex = 1
               /\ ~callOut.sprite.priority /\ ~callOut.sprite.yFlip /\ ~callOut.sprite.xFlip

\* the flag byte 0x57 (bits 6, 4, 2, 1, 0) was parsed: yFlip and palette 1
C12_Witness ==
    /\ callOut.fn = "ParseSprite"
    /\ EntryByte(3) = 87
    /\ callOut.sprite.yFlip
    /\ ~callOut.sprite.xFlip
    /\ ~callOut.sprite.priority
    /\ callOut.sprite.paletteNumber = 1
    /\ callOut.sprite.vramBank = 0

\* byte i of tile t in the bank handed to DecodeTile
TileByte(t, i) == ByteAt(callIn.vram, (16 * t) + i)

\* bit n of a byte, most significant first at n = 7
BitOf(byte, n) == (byte \div (2 ^ n)) % 2

\* C13: for a tile index in 0..511, pixel (r, c) of DecodeTile's result is
\* 2 * bit (7 - c) of byte 16t + 2r + 1 plus bit (7 - c) of byte 16t + 2r,
\* a value in 0..3, whatever the bank argument.
C13_DecodeTilePixels ==
    (callOut.fn = "DecodeTile" /\ callIn.tileIndex \in 0..511)
        => \A r \in 0..7 : \A c \in 0..7 :
               /\ callOut.pixelData[r][c] \in 0..3
               /\ callOut.pixelData[r][c] =
                      (2 * BitOf(TileByte(callIn.tileIndex, (2 * r) + 1), 7 - c))
                      + BitOf(TileByte(callIn.tileIndex, 2 * r), 7 - c)

\* tile 511 was decoded with bank 1 and has a pixel of each colour 1, 2, 3
C13_Witness ==
    /\ callOut.fn = "DecodeTile"
    /\ callIn.tileIndex = 511
    /\ callIn.bank = 1
    /\ \A v \in 1..3 : \E r \in 0..7 : \E c \in 0..7 : callOut.pixelData[r][c] = v

\* the 16 bytes of the 2bpp encoding of an 8x8 grid of colour indices
EncodeTile(pixelData) ==
    LET plane(i) == IF i % 2 = 1 THEN 2 ^ 1 ELSE 2 ^ 0
        bitAt(i, c) == (pixelData[i \div 2][c] \div plane(i)) % 2
    IN  [i \in 0..15 |->
            (bitAt(i, 0) * 128) + (bitAt(i, 1) * 64) + (bitAt(i, 2) * 32) + (bitAt(i, 3) * 16)
            + (bitAt(i, 4) * 8) + (bitAt(i, 5) * 4) + (bitAt(i, 6) * 2) + bitAt(i, 7)]

\* tiles whose bytes are compared with the decoded one
OtherTiles == {0, 1, 383, 511, (callIn.tileIndex + 1) % 512, 511 - callIn.tileIndex}

\* C14: encoding the decoded pixels again gives the 16 bytes of the tile,
\* and two tiles with different bytes decode to different pixels.
C14_DecodeRoundTrip ==
    (callOut.fn = "DecodeTile" /\ callIn.tileIndex \in 0..511)
        => /\ \A i \in 0..15 :
                  EncodeTile(callOut.pixelData)[i] = TileByte(callIn.tileIndex, i)
           /\ \A u \in OtherTiles :
                  (\E i \in 0..15 : TileByte(u, i) /= TileByte(callIn.tileIndex, i))
                      => DecodeTile_pixelData(callIn.vram, u, callIn.bank) /= callOut.pixelData

\* a tile with 16 different bytes, next to a different tile, was decoded
C14_Witness ==
    /\ callOut.fn = "DecodeTile"
    /\ \A i, j \in 0..15 :
           i /= j => TileByte(callIn.tileIndex, i) /= TileByte(callIn.tileIndex, j)
    /\ \E i \in 0..15 :
           TileByte((callIn.tileIndex + 1) % 512, i) /= TileByte(callIn.tileIndex, i)

\* C15: for a tile index i in 0..511 GetTileAddress returns 0x8000 + 16 * i,
\* which lies in 0x8000..0x9FF0: the 16-bit return value does not wrap.
C15_TileAddress ==
    (callOut.fn = "GetTileAddress" /\ callIn.tileIndex \in 0..511)
        => /\ callOut.ret = 32768 + (16 * callIn.tileIndex)
           /\ callOut.ret \in 32768..40944

\* the address of the last tile, 0x9FF0, was returned
C15_Witness ==
    /\ callOut.fn = "GetTileAddress"
    /\ callIn.tileIndex = 511
    /\ callOut.ret = 40944

\* the 8-bit value of a 5-bit channel: the five bits followed by the top three
Scale5To8(c) == (c * 8) + (c \div 4)

\* C16: for every 16-bit v ConvertCGBColor(v) has r, g, b equal to
\* (c << 3) | (c >> 2) of bits 0-4, 5-9 and 10-14 of v and a = 255; bit 15
\* changes nothing, a channel of 0 gives 0 and a channel of 31 gives 255.
C16_ConvertCGBColor ==
    callOut.fn = "ConvertCGBColor"
        => LET v == callIn.cgbColor
               r5 == v - (32 * (v \div 32))
               g5 == (v - (1024 * (v \div 1024))) \div 32
               b5 == (v - (32768 * (v \div 32768))) \div 1024
           IN  /\ callOut.ret = [r |-> Scale5To8(r5), g |-> Scale5To8(g5),
                                 b |-> Scale5To8(b5), a |-> 255]
               /\ r5 = 0 => callOut.ret.r = 0
               /\ r5 = 31 => callOut.ret.r = 255
               /\ g5 = 0 => callOut.ret.g = 0
               /\ g5 = 31 => callOut.ret.g = 255
               /\ b5 = 0 => callOut.ret.b = 0
               /\ b5 = 31 => callOut.ret.b = 255
               /\ callOut.ret = ConvertCGBColor((v + 32768) % 65536)

\* 0xFFFF, bit 15 set, was converted to opaque white
C16_Witness ==
    /\ callOut.fn = "ConvertCGBColor"
    /\ callIn.cgbColor = 65535
    /\ callOut.ret = [r |-> 255, g |-> 255, b |-> 255, a |-> 255]

\* the four shades of the DMG palette
Grayscale ==
    [colors |-> <<[r |-> 255, g |-> 255, b |-> 255, a |-> 255],
                  [r |-> 192, g |-> 192, b |-> 192, a |-> 255],
                  [r |-> 96, g |-> 96, b |-> 96, a |-> 255],
                  [r |-> 0, g |-> 0, b |-> 0, a |-> 255]>>]

SamePalette(p, q) == \A c \in 0..3 : p.colors[c] = q.colors[c + 1]

\* the palette a caller's CGBPalette is cached as
Converted(cgbPalette) ==
    [colors |-> [c \in 0..3 |->
        LET v == cgbPalette.colors[c] IN
        [r |-> Scale5To8(v % 32), g |-> Scale5To8((v \div 32) % 32),
         b |-> Scale5To8((v \div 1024) % 32), a |-> 255]]]

\* C17: in DMG mode GetBGPalette(i) and GetSpritePalette(i) return the
\* grayscale palette for every i, whatever SetMode, SetBGPalettes and
\* SetSpritePalettes calls came before; palettes set in DMG mode are
\* returned only once the mode is CGB.
C17_DMGAlwaysGrayscale ==
    /\ (lastCall.op \in {"GetBGPalette", "GetSpritePalette"} /\ paletteManager.mode_ = "DMG")
            => SamePalette(lastCall.ret, Grayscale)
    /\ (/\ lastCall.op \in {"SetBGPalettes", "SetSpritePalettes"}
        /\ paletteManager.mode_ = "DMG"
        /\ ~lastCall.palettes.null)
            => \A i \in PaletteIndices :
                   /\ SamePalette(GetBGPalette(paletteManager, i), Grayscale)
                   /\ SamePalette(GetSpritePalette(paletteManager, i), Grayscale)
                   /\ (0 <= i /\ i < lastCall.count /\ i <= 7)
                          => LET cgb == SetMode(paletteManager, "CGB") IN
                             IF lastCall.op = "SetBGPalettes"
                             THEN GetBGPalette(cgb, i) = Converted(lastCall.palettes.at[i])
                             ELSE GetSpritePalette(cgb, i) = Converted(lastCall.palettes.at[i])

\* GetBGPalette(8) was asked in DMG mode with coloured palettes cached
C17_Witness ==
    /\ lastCall.op = "GetBGPalette"
    /\ lastCall.index = 8
    /\ paletteManager.mode_ = "DMG"
    /\ paletteManager.bgPalettes_[7].colors[1] /= [r |-> 0, g |-> 0, b |-> 0, a |-> 255]
    /\ SamePalette(lastCall.ret, Grayscale)

\* an int index brought into 0..7
ClampedIndex(i) == IF i < 0 THEN 0 ELSE IF i > 7 THEN 7 ELSE i

\* C18: in CGB mode GetBGPalette(i) and GetSpritePalette(i) return the
\* cached palette at max(0, min(i, 7)), for negative i and i above 7 too,
\* and the selected palette indices are always in 0..7.
C18_IndicesClamped ==
    /\ (lastCall.op = "GetBGPalette" /\ paletteManager.mode_ = "CGB")
            => lastCall.ret = paletteManager.bgPalettes_[ClampedIndex(lastCall.index)]
    /\ (lastCall.op = "GetSpritePalette" /\ paletteManager.mode_ = "CGB")
            => lastCall.ret = paletteManager.spritePalettes_[ClampedIndex(lastCall.index)]
    /\ paletteManager.selectedBGPalette_ \in 0..7
    /\ paletteManager.selectedSpritePalette_ \in 0..7

\* GetSpritePalette(-1) returned slot 0 in CGB mode, slots 0 and 7 differ
\* from each other and from the background's, and 8 was selected as 7
C18_Witness ==
    /\ lastCall.op = "GetSpritePalette"
    /\ lastCall.index = -1
    /\ paletteManager.mode_ = "CGB"
    /\ lastCall.ret = paletteManager.spritePalettes_[0]
    /\ paletteManager.spritePalettes_[0] /= paletteManager.spritePalettes_[7]
    /\ paletteManager.spritePalettes_[0] /= paletteManager.bgPalettes_[0]
    /\ paletteManager.selectedSpritePalette_ = 7

\* the texture names a pool holds
PoolNames(pool) == {pool.textures_[i] : i \in DOMAIN pool.textures_}

\* C19: ReinitializeIfNeeded with the (rows, cols, scale) an initialized pool
\* already has returns false, generates and deletes no texture and leaves
\* every handle as it was; otherwise it deletes every texture the pool
\* held, generates exactly rows * cols new ones and returns true.
C19_ReinitializeIfNeeded ==
    [][lastCall'.op = "ReinitializeIfNeeded"
        => IF /\ texturePool.initialized_
              /\ texturePool.rows_ = lastCall'.rows
              /\ texturePool.cols_ = lastCall'.cols
              /\ texturePool.scale_ = lastCall'.scale
           THEN /\ lastCall'.ret = FALSE
                /\ lastCall'.generated = 0 /\ lastCall'.deleted = 0
                /\ gl' = gl
                /\ texturePool' = texturePool
           ELSE /\ lastCall'.ret = TRUE
                /\ lastCall'.deleted = Len(texturePool.textures_)
                /\ gl.live \ gl'.live = PoolNames(texturePool)
                /\ lastCall'.generated = lastCall'.rows * lastCall'.cols
                /\ Len(texturePool'.textures_) = lastCall'.rows * lastCall'.cols
                /\ gl'.live \ gl.live = PoolNames(texturePool')
                /\ Cardinality(PoolNames(texturePool')) = lastCall'.rows * lastCall'.cols
                /\ texturePool'.initialized_
                /\ texturePool'.rows_ = lastCall'.rows
                /\ texturePool'.cols_ = lastCall'.cols
                /\ texturePool'.scale_ = lastCall'.scale]_vars

\* a 24 x 16 pool of scale 2 was asked for scale 3 and holds 384 new names
C19_Witness ==
    /\ lastCall.op = "ReinitializeIfNeeded"
    /\ lastCall.rows = 24 /\ lastCall.cols = 16 /\ lastCall.scale = 3
    /\ lastCall.ret = TRUE
    /\ lastCall.generated = 384
    /\ lastCall.deleted = 384
    /\ Cardinality(gl.live) = 384

\* what GetTexture and IsInitialized answer for a pool: a live name, one
\* per position, inside the grid of an initialized pool, and 0 elsewhere
PoolAnswers(pool, g) ==
    \A r \in (-1)..pool.rows_ : \A c \in (-1)..pool.cols_ :
        LET texture == GetTexture(pool, r, c) IN
        IF pool.initialized_ /\ 0 <= r /\ r < pool.rows_ /\ 0 <= c /\ c < pool.cols_
        THEN /\ texture /= 0
             /\ texture \in g.live
             /\ texture = pool.textures_[(r * pool.cols_) + c + 1]
        ELSE texture = 0

\* C20: from an Initialize to the next Clear GetTexture(r, c) returns, for
\* every position inside the grid, a non-zero name that this Initialize
\* generated and nothing deleted since, and 0 for every position outside;
\* before any Initialize and after Clear it returns 0 everywhere and
\* IsInitialized is false.
C20_GetTextureBetweenInitializeAndClear ==
    [][/\ lastCall.op = "new" => PoolAnswers(texturePool, gl)
       /\ lastCall'.op /= "GetTexture" => PoolAnswers(texturePool', gl')
       /\ (lastCall'.op = "Initialize"
               \/ (lastCall'.op = "ReinitializeIfNeeded" /\ lastCall'.ret))
            => /\ texturePool'.initialized_
               /\ texturePool'.rows_ = lastCall'.rows
               /\ texturePool'.cols_ = lastCall'.cols
               /\ PoolNames(texturePool') \cap gl.live = {}
               /\ PoolNames(texturePool') \subseteq gl'.live
       /\ lastCall'.op = "Clear"
            => /\ ~texturePool'.initialized_
               /\ texturePool'.rows_ = 0 /\ texturePool'.cols_ = 0
               /\ gl'.live \cap PoolNames(texturePool) = {}
       /\ (lastCall'.op = "GetTexture"
               \/ (lastCall'.op = "ReinitializeIfNeeded" /\ ~lastCall'.ret))
            => texturePool' = texturePool /\ gl' = gl
       /\ lastCall'.op = "GetTexture"
            => /\ callOut'.IsInitialized = texturePool.initialized_
               /\ (~texturePool.initialized_ => callOut'.ret = 0)
               /\ (texturePool.initialized_
                      => IF /\ 0 <= callOut'.row /\ callOut'.row < texturePool.rows_
                            /\ 0 <= callOut'.col /\ callOut'.col < texturePool.cols_
                         THEN callOut'.ret \in gl.live /\ callOut'.ret /= 0
                         ELSE callOut'.ret = 0)
       /\ (lastCall.op = "new" /\ lastCall'.op = "GetTexture")
            => callOut'.ret = 0 /\ ~callOut'.IsInitialized]_vars

\* GetTexture(15, 11) returned a live name from a 16 x 12 pool that was
\* initialized after an earlier pool had been cleared
C20_Witness ==
    /\ callOut.fn = "GetTexture"
    /\ callOut.row = 15 /\ callOut.col = 11
    /\ texturePool.initialized_
    /\ texturePool.rows_ = 16 /\ texturePool.cols_ = 12
    /\ callOut.ret \in gl.live
    /\ callOut.ret > 192

\* the tile indices asked about: the cached and flagged ones, the 384 tiles
\* of a bank, and indices outside them
DirtyQueries(r) ==
    AllTileIndices \cup DOMAIN r.dirtyFlags_ \cup DOMAIN r.tileTextures_ \cup {-1, 384, 65535}

\* C21: IsTileDirty(i) is true for every tile without a recorded state (new
\* renderer, after ClearTextures, never touched); it becomes false only
\* through an UpdateTiles call that has the tile in its vector and stays
\* false only until MarkTileDirty(i) or MarkAllDirty; after MarkAllDirty it
\* is true for every i.
C21_DirtyByDefault ==
    [][LET r == vram_panel_.renderer_
           rr == vram_panel_'.renderer_
       IN  /\ lastCall.op = "new" => \A i \in DirtyQueries(r) : IsTileDirty(r, i)
           /\ \A i \in DirtyQueries(rr) :
                  /\ i \notin DOMAIN rr.dirtyFlags_ => IsTileDirty(rr, i)
                  /\ lastCall'.op \in {"MarkAllDirty", "ClearTextures"} => IsTileDirty(rr, i)
                  /\ (lastCall'.op = "MarkTileDirty" /\ lastCall'.tileIndex = i)
                        => IsTileDirty(rr, i)
                  /\ ~IsTileDirty(rr, i)
                        => \/ /\ lastCall'.op = "UpdateTiles"
                              /\ \E k \in DOMAIN lastCall'.tiles : lastCall'.tiles[k] = i
                              /\ i \in DOMAIN rr.tileTextures_
                           \/ /\ ~IsTileDirty(r, i)
                              /\ lastCall'.op \in {"UpdateTiles", "MarkTileDirty"}]_vars

\* MarkAllDirty ran on a cache holding a rendered tile, whose flag is now set
C21_Witness ==
    /\ lastCall.op = "MarkAllDirty"
    /\ vram_panel_.renderer_.tileTextures_ /= NoTiles
    /\ \E i \in DOMAIN vram_panel_.renderer_.dirtyFlags_ :
           vram_panel_.renderer_.dirtyFlags_[i]
    /\ gl.next > 1

\* C22: UpdatePalettes returns true exactly when one of its two pointers is
\* not null; a side that is not null replaces the 8 raw palettes of that
\* side and the 8 converted palettes of the PaletteManager, a null side
\* leaves both as they were, and with both null nothing changes at all.
C22_UpdatePalettes ==
    [][lastCall'.op = "UpdatePalettes"
        => LET bg == lastCall'.bgPalettes
               sprite == lastCall'.spritePalettes
               pm == vram_panel_.paletteManager_
               pmm == vram_panel_'.paletteManager_
           IN  /\ lastCall'.ret <=> (~bg.null \/ ~sprite.null)
               /\ ~bg.null
                    => \A i \in 0..7 :
                          /\ vram_panel_'.bgPalettes_[i] = bg.at[i]
                          /\ pmm.bgPalettes_[i] = Converted(bg.at[i])
               /\ bg.null
                    => /\ vram_panel_'.bgPalettes_ = vram_panel_.bgPalettes_
                       /\ pmm.bgPalettes_ = pm.bgPalettes_
               /\ ~sprite.null
                    => \A i \in 0..7 :
                          /\ vram_panel_'.spritePalettes_[i] = sprite.at[i]
                          /\ pmm.spritePalettes_[i] = Converted(sprite.at[i])
               /\ sprite.null
                    => /\ vram_panel_'.spritePalettes_ = vram_panel_.spritePalettes_
                       /\ pmm.spritePalettes_ = pm.spritePalettes_
               /\ (bg.null /\ sprite.null) => vram_panel_' = vram_panel_]_vars

\* only sprite palettes were handed over, after background palettes had
\* been set by an earlier call and a frame had been drawn
C22_Witness ==
    /\ lastCall.op = "UpdatePalettes"
    /\ lastCall.bgPalettes.null
    /\ ~lastCall.spritePalettes.null
    /\ lastCall.ret
    /\ vram_panel_.bgPalettes_[7].colors[3] /= 0
    /\ vram_panel_.bgPalettes_ /= vram_panel_.spritePalettes_
    /\ vram_panel_.state_.needsRefresh
    /\ gl.next > 1

\* C23: UpdateOAM returns true and replaces the 160 stored OAM bytes with
\* the caller's exactly when the buffer is not null and size is 160;
\* otherwise it returns false and leaves the OAM bytes and needsRefresh
\* as they were.
C23_UpdateOAM ==
    [][lastCall'.op = "UpdateOAM"
        => IF ~lastCall'.buffer.null /\ lastCall'.size = 160
           THEN /\ lastCall'.ret = TRUE
                /\ vram_panel_'.oam_.len = 160
                /\ \A i \in 0..159 :
                       ByteAt(vram_panel_'.oam_, i) = ByteAt(lastCall'.buffer, i)
           ELSE /\ lastCall'.ret = FALSE
                /\ vram_panel_'.oam_ = vram_panel_.oam_
                /\ vram_panel_'.state_.needsRefresh = vram_panel_.state_.needsRefresh]_vars

\* a 159-byte update was turned away after a frame was drawn over stored
\* OAM bytes
C23_Witness ==
    /\ lastCall.op = "UpdateOAM"
    /\ lastCall.size = 159
    /\ ~lastCall.ret
    /\ ByteAt(vram_panel_.oam_, 158) = 254
    /\ ~vram_panel_.state_.needsRefresh

\* C24: a new debugger is not open; Open on an open debugger returns true
\* and makes no backend call; Close on a closed debugger does nothing; as
\* long as no Initialize has failed, the debugger is open exactly when the
\* last backend call was Initialize, Initialize and Shutdown calls
\* alternate, and Open after Close opens the debugger again.
C24_Lifecycle ==
    [][/\ lastCall.op = "new" => ~is_open_
       /\ (lastCall'.op = "Open" /\ is_open_)
            => /\ lastCall'.ret = TRUE
               /\ lastCall'.backend = "none"
               /\ backend_' = backend_
               /\ is_open_'
       /\ (lastCall'.op = "Close" /\ ~is_open_)
            => /\ lastCall'.backend = "none"
               /\ backend_' = backend_
               /\ ~is_open_'
       /\ (lastCall'.op = "Open" /\ ~is_open_)
            => /\ lastCall'.backend = "Initialize"
               /\ ~backend_'.failed => (lastCall'.ret = TRUE /\ is_open_')
       /\ (lastCall'.op = "Close" /\ is_open_)
            => lastCall'.backend = "Shutdown" /\ ~is_open_'
       /\ lastCall'.op \notin {"Open", "Close"}
            => (is_open_' = is_open_ /\ backend_' = backend_)
       /\ ~backend_'.failed
            => /\ is_open_' <=> (backend_'.last = "Initialize")
               /\ (lastCall'.op \in {"Open", "Close"} /\ lastCall'.backend = "Initialize")
                     => backend_.last \in {"none", "Shutdown"}
               /\ (lastCall'.op \in {"Open", "Close"} /\ lastCall'.backend = "Shutdown")
                     => backend_.last = "Initialize"]_vars

\* the debugger was opened again after a Close, every Initialize succeeding
C24_Witness ==
    /\ lastCall.op = "Open"
    /\ lastCall.ret
    /\ lastCall.backend = "Initialize"
    /\ lastCall.prev = "Shutdown"
    /\ ~backend_.failed
    /\ is_open_

(***************************************************************************)
(* SpecBank: ROM, RAM and VRAM banks and the VRAM viewer's source choice,  *)
(* starting after one UpdateMemory                                         *)
(***************************************************************************)
InitBank ==
    LET r == UpdateMemory(MemoryViewerPanel_new, VRAMViewerPanel_new,
                          PtrTo(MemoryImage(0, 17)), 65536) IN
    /\ is_open_ = FALSE
    /\ backend_ = DebuggerBackend_new
    /\ bankData_ = BankData_new
    /\ memory_panel_ = r.memory_panel_
    /\ vram_panel_ = r.vram_panel_
    /\ lastCall = [op |-> "UpdateMemory", ret |-> r.ret]
    /\ callerPtrs = [granted |-> {}, revoked |-> {}]
    /\ parseIn = [oam |-> NullPtr, size |-> 0]
    /\ parseOut = [done |-> FALSE, sprites |-> <<>>]
    /\ gl = GL_new
    /\ texturePool = TexturePool_new
    /\ paletteManager = PaletteManager_new
    /\ callIn = NoCall
    /\ callOut = NoCall

NextBank ==
    \/ GBDebugger_SetVRAMBank_bank1
    \/ GBDebugger_SetROMBanks
    \/ GBDebugger_SetRAMBanks
    \/ GBDebugger_ClearBankData
    \/ VRAMViewerPanel_Render_selector

SpecBank == InitBank /\ [][NextBank]_vars

(***************************************************************************)
(* SpecRegion: the banks and the memory viewer's bank choice per region    *)
(***************************************************************************)
NextRegion ==
    \/ GBDebugger_SetVRAMBank_bank1
    \/ GBDebugger_SetROMBanks
    \/ GBDebugger_SetRAMBanks
    \/ GBDebugger_ClearBankData
    \/ MemoryViewerPanel_Render

SpecRegion == InitBank /\ [][NextRegion]_vars

\* region bank states and addresses the reads are examined at
RegionStates == [source : {"MappedMemory", "SpecificBank"}, bankNumber : {0, 1, 2, 15, 16, 511}]
ProbeAddresses ==
    Probes(RomBank0Region) \cup Probes(RomBankNRegion) \cup Probes(VramRegion)
    \cup Probes(ExternalRamRegion) \cup {49152, 65535}

\* C25: after ClearBankData every VRAM, ROM and RAM bank pointer is null,
\* the three provided flags are false, the counts and the RAM bank size are
\* 0, the VRAM viewer shows mapped memory with both external pointers null,
\* and every read of the memory viewer yields the byte of the 64KB copy,
\* whatever bank the region states name.
C25_ClearBankData ==
    [][lastCall'.op = "ClearBankData"
         => /\ \A i \in 1..2 : bankData_'.vramBanks[i] = 0
            /\ bankData_'.romBanks.len = 512
            /\ \A i \in 0..511 : ByteAt(bankData_'.romBanks, i) = 0
            /\ bankData_'.ramBanks.len = 16
            /\ \A i \in 0..15 : ByteAt(bankData_'.ramBanks, i) = 0
            /\ ~bankData_'.vramBanksProvided
            /\ ~bankData_'.romBanksProvided
            /\ ~bankData_'.ramBanksProvided
            /\ bankData_'.romBankCount = 0
            /\ bankData_'.ramBankCount = 0
            /\ bankData_'.ramBankSize = 0
            /\ vram_panel_'.vramSource_ = "MappedMemory"
            /\ vram_panel_'.vramBank0External_ = 0
            /\ vram_panel_'.vramBank1External_ = 0
            /\ \A a \in ProbeAddresses :
                 \A st \in RegionStates \cup {memory_panel_'.vramBankState_,
                                              memory_panel_'.romBankState_,
                                              memory_panel_'.ramBankState_} :
                    LET r == GetDataSource(memory_panel_', bankData_', a, st) IN
                    /\ r.from = "mapped"
                    /\ r.byte = ByteAt(memory_panel_'.state_.buffer, a)]_vars

\* ClearBankData took back VRAM bank 1 and left the viewer on mapped memory
C25_Witness ==
    /\ lastCall.op = "ClearBankData"
    /\ callerPtrs.revoked = {1}
    /\ vram_panel_.state_.needsRefresh
    /\ vram_panel_.vramSource_ = "MappedMemory"
    /\ ~memory_panel_.bankData_

\* C26: SetROMBanks with count 0 or above 512 returns false, leaves the bank
\* data as it was and never invokes the lookup; otherwise it invokes the
\* lookup once per index 0..count-1 in order, stores the results in
\* romBanks[0..count-1], nulls romBanks[count..511], and sets the count and
\* the provided flag.  SetRAMBanks does the same for counts up to 16, 0
\* included, and rejects counts above 16; SetVRAMBank rejects banks above 1.
C26_SetBanks ==
    [][/\ lastCall'.op = "SetROMBanks"
           => LET c == lastCall'.count
                  f == lastCall'.getBankFunc
              IN  IF c = 0 \/ c > 512
                  THEN /\ lastCall'.ret = FALSE
                       /\ lastCall'.calls = <<>>
                       /\ bankData_' = bankData_
                  ELSE /\ lastCall'.ret = TRUE
                       /\ Len(lastCall'.calls) = c
                       /\ \A k \in 1..c : lastCall'.calls[k] = k - 1
                       /\ \A i \in 0..511 :
                             ByteAt(bankData_'.romBanks, i) = IF i < c THEN f[i] ELSE 0
                       /\ bankData_'.romBankCount = c
                       /\ bankData_'.romBanksProvided
       /\ lastCall'.op = "SetRAMBanks"
           => LET c == lastCall'.count
                  f == lastCall'.getBankFunc
              IN  IF c > 16
                  THEN /\ lastCall'.ret = FALSE
                       /\ lastCall'.calls = <<>>
                       /\ bankData_' = bankData_
                  ELSE /\ lastCall'.ret = TRUE
                       /\ Len(lastCall'.calls) = c
                       /\ \A k \in 1..c : lastCall'.calls[k] = k - 1
                       /\ \A i \in 0..15 :
                             ByteAt(bankData_'.ramBanks, i) = IF i < c THEN f[i] ELSE 0
                       /\ bankData_'.ramBankCount = c
                       /\ bankData_'.ramBankSize = lastCall'.bankSize
                       /\ bankData_'.ramBanksProvided
       /\ (lastCall'.op = "SetVRAMBank" /\ lastCall'.bank > 1)
           => /\ lastCall'.ret = FALSE
              /\ bankData_' = bankData_
              /\ vram_panel_' = vram_panel_]_vars

\* two ROM banks were taken where more had been held: bank 2 is null again
C26_Witness ==
    /\ lastCall.op = "SetROMBanks"
    /\ lastCall.ret
    /\ lastCall.count = 2
    /\ Len(lastCall.calls) = 2
    /\ bankData_.romBankCount = 2
    /\ ByteAt(bankData_.romBanks, 0) /= 0
    /\ ByteAt(bankData_.romBanks, 2) = 0
    /\ bankData_.ramBanksProvided
    /\ bankData_.ramBankCount = 0

\* the banked region an address lies in
RegionOf(a) ==
    IF a >= 16384 /\ a <= 32767 THEN "rom"
    ELSE IF a >= 32768 /\ a <= 40959 THEN "vram"
    ELSE IF a >= 40960 /\ a <= 49151 THEN "ram"
    ELSE "none"

\* C29: a read comes from an external bank only when the region state
\* names a specific bank, bank data is attached, the region's provided
\* flag is set, the bank number is below the region's bank count (2 for
\* VRAM), the bank pointer is not null and, for external RAM, the offset is
\* below ramBankSize; every other read yields the byte of the 64KB copy.
\* No read goes through a null bank pointer or past the bank count.
C29_GetDataSource ==
    /\ \A a \in ProbeAddresses :
         \A st \in RegionStates \cup {memory_panel_.vramBankState_,
                                      memory_panel_.romBankState_,
                                      memory_panel_.ramBankState_} :
            LET r == GetDataSource(memory_panel_, bankData_, a, st)
                region == RegionOf(a)
                base == CASE region = "rom" -> 16384
                          [] region = "vram" -> 32768
                          [] region = "ram" -> 40960
                          [] OTHER -> 0
                provided == CASE region = "rom" -> bankData_.romBanksProvided
                              [] region = "vram" -> bankData_.vramBanksProvided
                              [] region = "ram" -> bankData_.ramBanksProvided
                              [] OTHER -> FALSE
                count == CASE region = "rom" -> bankData_.romBankCount
                           [] region = "vram" -> 2
                           [] region = "ram" -> bankData_.ramBankCount
                           [] OTHER -> 0
                capacity == CASE region = "rom" -> 512
                              [] region = "vram" -> 2
                              [] region = "ram" -> 16
                              [] OTHER -> 0
                ptr == IF st.bankNumber >= capacity THEN 0
                       ELSE CASE region = "rom" -> ByteAt(bankData_.romBanks, st.bankNumber)
                              [] region = "vram" -> bankData_.vramBanks[st.bankNumber + 1]
                              [] region = "ram" -> ByteAt(bankData_.ramBanks, st.bankNumber)
                              [] OTHER -> 0
                external == /\ st.source = "SpecificBank"
                            /\ memory_panel_.bankData_
                            /\ provided
                            /\ st.bankNumber < count
                            /\ ptr /= 0
                            /\ (region = "ram" => a - base < bankData_.ramBankSize)
            IN  /\ count <= capacity
                /\ IF external
                   THEN /\ r.from = "bank"
                        /\ r.region = region
                        /\ r.index = st.bankNumber
                        /\ r.ptr = ptr
                        /\ r.offset = a - base
                   ELSE /\ r.from = "mapped"
                        /\ r.byte = ByteAt(memory_panel_.state_.buffer, a)
    /\ lastCall.op = "RenderMemory"
         => \A a \in DOMAIN lastCall.reads :
               lastCall.reads[a].from = "bank"
                 => /\ lastCall.reads[a].ptr /= 0
                    /\ lastCall.reads[a].region = RegionOf(a)
                    /\ lastCall.reads[a].index <
                          (CASE RegionOf(a) = "rom" -> bankData_.romBankCount
                             [] RegionOf(a) = "vram" -> 2
                             [] RegionOf(a) = "ram" -> bankData_.ramBankCount)

\* the ROM region is shown with bank 15 still chosen after the bank count
\* shrank to 2: the frame displays the 64KB copy
C29_Witness ==
    /\ lastCall.op = "RenderMemory"
    /\ 16384 \in DOMAIN lastCall.reads
    /\ lastCall.reads[16384].from = "mapped"
    /\ memory_panel_.romBankState_ = [source |-> "SpecificBank", bankNumber |-> 15]
    /\ memory_panel_.bankData_
    /\ bankData_.romBanksProvided
    /\ bankData_.romBankCount = 2

\* C28: in every state the VRAM viewer can reach through selector choices,
\* SetVRAMBankData, SetVRAMBank and ClearBankData, the source is Bank1 only
\* while the external bank-1 pointer is not null.
C28_Bank1NeedsData ==
    vram_panel_.vramSource_ = "Bank1" => vram_panel_.vramBank1External_ /= 0

\* C30: in every state reached through SetVRAMBank and ClearBankData,
\* vramBanksProvided holds exactly when vramBanks[0] or vramBanks[1] is
\* not null.
C30_ProvidedIffBank ==
    bankData_.vramBanksProvided
        <=> (bankData_.vramBanks[1] /= 0 \/ bankData_.vramBanks[2] /= 0)

(***************************************************************************)
(* SpecLeak: render passes over the texture pools, and ClearTextures       *)
(***************************************************************************)
NextLeak ==
    \/ VRAMViewerPanel_Render_views
    \/ TileRenderer_ClearTextures

SpecLeak == Init /\ [][NextLeak]_vars

\* the pool positions the render pass draws, and the handle the pooled
\* render call returns at each
PoolPositions ==
    {<<"tile", row, col>> : row \in 0..23, col \in 0..15}
    \cup {<<"sprite", i, b>> : i \in 0..(MAX_SPRITES - 1), b \in 0..1}
    \cup {<<"inspector", 0, 0>>}
HandleAt(r, p) ==
    CASE p[1] = "tile" -> RenderTileAt(r, p[2], p[3])
      [] p[1] = "sprite" -> RenderSpriteAt(r, p[2], p[3] = 1)
      [] p[1] = "inspector" -> RenderInspectorTile(r)
PoolTextures(r) == {HandleAt(r, p) : p \in PoolPositions} \ {0}
AllPoolsInitialized(r) ==
    /\ r.tileGridPool_.initialized_
    /\ r.spritePool_.initialized_
    /\ r.inspectorPool_.initialized_

\* C27: a render pass over pools that are already set up generates and
\* deletes no texture and returns the same handle at every pool position;
\* once the three pools are set up there are 384 + 80 + 1 live textures,
\* one per position; after ClearTextures no pool texture is live.
C27_NoTextureLeak ==
    /\ [](LET r == vram_panel_.renderer_ IN
          /\ \A p \in PoolPositions :
                LET h == HandleAt(r, p) IN
                /\ h /= 0 => h \in gl.live
                /\ AllPoolsInitialized(r) => h /= 0
          /\ AllPoolsInitialized(r)
                => /\ Cardinality(gl.live) = 384 + 80 + 1
                   /\ Cardinality(PoolTextures(r)) = 384 + 80 + 1)
    /\ [][LET r == vram_panel_.renderer_
              r2 == vram_panel_'.renderer_
          IN  /\ lastCall'.op = "Render"
                   => /\ \/ r2 = r
                         \/ \A p \in PoolPositions :
                               HandleAt(r, p) /= 0 => HandleAt(r2, p) = HandleAt(r, p)
                      /\ AllPoolsInitialized(r) => (gl' = gl /\ r2 = r)
              /\ lastCall'.op = "ClearTextures"
                   => /\ PoolTextures(r) \cap gl'.live = {}
                      /\ PoolTextures(r2) = {}
                      /\ gl'.live = {}]_vars

\* the inspector pool was set up in a later pass than the sprite pool, and
\* the passes since then left the 465 textures as they were
C27_Witness ==
    /\ lastCall.op = "Render"
    /\ lastCall.drawn
    /\ RenderInspectorTile(vram_panel_.renderer_) = 465
    /\ RenderTileAt(vram_panel_.renderer_, 23, 15) = 384
    /\ RenderSpriteAt(vram_panel_.renderer_, 39, TRUE) = 464
    /\ Cardinality(gl.live) = 465
    /\ gl.next = 466
    /\ vram_panel_.state_.selectedTile = 383

====
